---- MODULE Spec2Model ----
(***************************************************************************)
(* SAPI server of src/src/sapi/sapi.cpp: the request callback (early       *)
(* checks, path matching, OPTIONS reply, dispatch to the work queue), the  *)
(* work queue and its worker threads, and the server lifecycle             *)
(* (Init, Start, Interrupt, Stop).                                         *)
(*                                                                         *)
(* Strings are sequences of one-character strings, so that SplitPath and   *)
(* the path matcher work on characters as the code does.                   *)
(***************************************************************************)
EXTENDS Integers, Sequences, FiniteSets, TLC

VARIABLES
    \* globals of sapi.cpp
    workQueue,         \* the pointer: "null", "live" or "deleted" (dangling)
    eventBaseSAPI,     \* TRUE when set
    eventSAPI,         \* TRUE when set
    boundSocketsSAPI,  \* addresses bound
    threadSAPI,        \* accept-loop thread: "none", "running", "exited"
    heapOrder,         \* memory order of the groups' endpoint vectors
    \* the WorkQueue object
    queue,             \* work items, oldest first
    running,
    maxDepth,
    \* the HTTP engine
    gencb,             \* "request" (sapi_request_cb) or "reject"
    listening,         \* accept sockets registered
    loopbreak,         \* event_base_loopbreak was called
    \* threads
    ctl,               \* controlling thread: [pc, called]
    cb,                \* accept-loop thread inside sapi_request_cb: [pc, item]
    worker,            \* worker threads: how many wait in Dequeue, how many left Run
    held,              \* request -> the copies of its work item workers execute
    crashed,           \* the process aborted
    \* what happened to each request
    nextId,            \* requests delivered so far, plus one
    cur,               \* the request delivered last: [id, req], where tracked
    replies,           \* request -> replies written, in order
    enq,               \* request -> result of its Enqueue call
    execs,             \* request -> times its work item was executed
    enqOrder,          \* requests whose Enqueue returned true, in call order
    takenOrder,        \* requests dequeued, in order
    queuedAtInterrupt, \* requests queued when WorkQueue.Interrupt() ran
    burst,             \* the Enqueue calls, [id, ok], since the queue was last empty
    burstOn,           \* the queue is running and saw no dequeue since it was empty
    \* matcher harness
    mT,        \* segments the template string is built from
    mU,        \* segments of the URI after the group prefix
    mRes,      \* result of the endpoint match, or NoRes
    \* executor harness
    vEndpoint, \* the endpoint of the work item: body root and declared parameters
    vBody,     \* the request body
    vRes       \* what SAPIExecuteEndpoint did, or NoExec

sysVars ==
    << workQueue, eventBaseSAPI, eventSAPI, boundSocketsSAPI, threadSAPI, heapOrder,
       queue, running, maxDepth, gencb, listening, loopbreak, ctl, cb, worker,
       held, crashed, nextId, cur, replies, enq, execs, enqOrder, takenOrder,
       queuedAtInterrupt, burst, burstOn >>

matchVars == << mT, mU, mRes >>

execVars == << vEndpoint, vBody, vRes >>

vars == << sysVars, matchVars, execVars >>

----------------------------------------------------------------------------
(* Bounds of the model *)

\* longest template, in segments, the matcher harness draws
MaxSegs == 2

\* requests the HTTP engine delivers in one run
MaxRequests == 3

\* requests delivered in a run of the dispatcher specification
MaxDispatched == 2

\* largest -sapiworkqueue and -sapithreads arguments drawn
MaxDepthArg == 2
MaxThreadsArg == 2

----------------------------------------------------------------------------
(* Strings *)

\* what front() reads on an empty std::string: the terminating '\0'
NUL == "NUL"

EmptyStr == << >>

RECURSIVE IndexOf(_, _, _)
\* first index >= i of character c in s, 0 if none
IndexOf(s, c, i) ==
    IF i > Len(s) THEN 0
    ELSE IF s[i] = c THEN i
    ELSE IndexOf(s, c, i + 1)

RECURSIVE SplitPath(_)
\* boost::split(parts, str, is_any_of("/")): one token more than there are
\* delimiters, empty tokens kept; the empty string gives one empty token.
SplitPath(str) ==
    LET k == IndexOf(str, "/", 1) IN
    IF k = 0 THEN << str >>
    ELSE << SubSeq(str, 1, k - 1) >> \o SplitPath(SubSeq(str, k + 1, Len(str)))

RECURSIVE Join(_)
\* the string whose segments are parts: parts joined by "/"
Join(parts) ==
    IF Len(parts) = 0 THEN EmptyStr
    ELSE IF Len(parts) = 1 THEN parts[1]
    ELSE parts[1] \o << "/" >> \o Join(Tail(parts))

\* std::string::front(), back(): on an empty string the behaviour is undefined;
\* a build without library assertions reads the terminator
Front(s) == IF Len(s) = 0 THEN NUL ELSE s[1]
Back(s) == IF Len(s) = 0 THEN NUL ELSE s[Len(s)]

----------------------------------------------------------------------------
(* Path matching, sapi_request_cb lines 172-216 *)

\* std::map::insert: an existing key keeps its value
MapInsert(m, k, v) ==
    IF \E p \in m : p[1] = k THEN m ELSE m \cup { << k, v >> }

\* partStr.front() == '{' && partStr.back() == '}'
IsParam(partStr) == Front(partStr) = "{" /\ Back(partStr) = "}"

RECURSIVE MatchLoop(_, _, _, _, _)
\* the loop over the URI parts (lines 190-211); i is 1-based here.
\* ub records that front() was called on an empty string.
MatchLoop(i, partsURI, partsEndpoint, mapPathParams, ub) ==
    IF i > Len(partsURI)
    THEN [fMatch |-> TRUE, params |-> mapPathParams, ub |-> ub]
    ELSE
        LET partStr == IF i <= Len(partsEndpoint) THEN partsEndpoint[i] ELSE EmptyStr
            uriPartStr == partsURI[i]
            fParam == IsParam(partStr)
            ub2 == ub \/ Len(partStr) = 0
        IN  IF uriPartStr # partStr /\ ~fParam
            THEN [fMatch |-> FALSE, params |-> {}, ub |-> ub2]
            ELSE IF fParam
            THEN MatchLoop(i + 1, partsURI, partsEndpoint,
                           MapInsert(mapPathParams,
                                     SubSeq(partStr, 2, Len(partStr) - 1),
                                     uriPartStr),
                           ub2)
            ELSE MatchLoop(i + 1, partsURI, partsEndpoint, mapPathParams, ub2)

\* whether partsURI matches the endpoint template path, and the parameters
EndpointMatch(partsURI, path) ==
    LET partsEndpoint == SplitPath(path) IN
    IF Len(partsEndpoint) = 0
    THEN [fMatch |-> Len(partsURI) = 0
                       \/ (Len(partsURI) = 1 /\ partsURI[Len(partsURI)] = EmptyStr),
          params |-> {}, ub |-> FALSE]
    ELSE IF (Len(partsURI) = Len(partsEndpoint) + 1
                /\ partsURI[Len(partsURI)] = EmptyStr)
            \/ Len(partsURI) = Len(partsEndpoint)
    THEN MatchLoop(1, partsURI, partsEndpoint, {}, FALSE)
    ELSE [fMatch |-> FALSE, params |-> {}, ub |-> FALSE]

----------------------------------------------------------------------------
(* Endpoint registry: endpointGroups, set in StartSAPI (lines 516-520).     *)
(* The groups themselves are defined outside sapi.cpp; the model registers  *)
(* two groups that share a prefix, with a parameterised template under two  *)
(* methods, a root endpoint and an endpoint of method OPTIONS.              *)

Endpoint(path, method, bodyRoot, vecBodyParameter) ==
    [path |-> path, method |-> method, bodyRoot |-> bodyRoot,
     vecBodyParameter |-> vecBodyParameter]

BodyParameter(key, optional, type) == [key |-> key, optional |-> optional, type |-> type]

endpointGroups ==
    << [prefix |-> << "a" >>,
        endpoints |-> << Endpoint(<< "x", "/", "{", "p", "}" >>, "GET", "VNULL", << >>),
                         Endpoint(<< "x", "/", "{", "p", "}" >>, "POST", "VOBJ",
                                  << BodyParameter("k1", FALSE, "VSTR"),
                                     BodyParameter("k2", TRUE, "VNUM") >>),
                         Endpoint(EmptyStr, "GET", "VNULL", << >>) >>],
       [prefix |-> << "a" >>,
        endpoints |-> << Endpoint(<< "x", "/", "{", "q", "}" >>, "GET", "VNULL", << >>),
                         Endpoint(<< "{", "p", "}", "/", "y" >>, "OPTIONS", "VNULL", << >>) >>] >>

GroupIds == 1..Len(endpointGroups)

\* an Endpoint*: group and index in the group's vector
EndpointPtrs ==
    UNION { { << g, e >> : e \in 1..Len(endpointGroups[g].endpoints) } : g \in GroupIds }

EndpointAt(ptr) == endpointGroups[ptr[1]].endpoints[ptr[2]]

\* the orders in which the groups' endpoint vectors can lie in memory
HeapOrders == { f \in [GroupIds -> GroupIds] : \A g, h \in GroupIds : f[g] = f[h] => g = h }

\* operator< on Endpoint*: endpoints of one vector lie in index order, the
\* vectors of different groups in the order heap gives them
PtrLess(heap, p, q) ==
    \/ heap[p[1]] < heap[q[1]]
    \/ p[1] = q[1] /\ p[2] < q[2]

----------------------------------------------------------------------------
(* Replies *)

DefaultHeaders ==
    { "User-Agent", "Client-Version", "SAPI-Version", "Access-Control-Allow-Origin" }

\* SAPI::Error(req, status, message): one Result of code Undefined in a JSON
\* array, with the default headers (lines 631-650)
ErrorReply(status, message) ==
    [status |-> status,
     headers |-> DefaultHeaders \cup { "Content-Type" },
     allow |-> << >>,
     errors |-> << [code |-> "Undefined", message |-> message] >>,
     text |-> ""]

\* HTTPRequest::WriteReply(status, text) with no header added
RawReply(status, text) ==
    [status |-> status, headers |-> {}, allow |-> << >>, errors |-> << >>, text |-> text]

\* the OPTIONS reply of lines 223-233
OptionsReply(strMethods) ==
    [status |-> 200,
     headers |-> DefaultHeaders \cup { "Access-Control-Allow-Methods",
                                       "Access-Control-Allow-Headers" },
     allow |-> strMethods,
     errors |-> << >>,
     text |-> ""]

\* evhttp_send_error(req, 503, NULL) of sapi_reject_request_cb
RejectReply ==
    [status |-> 503, headers |-> { "Content-Type" }, allow |-> << >>,
     errors |-> << >>, text |-> "evhttp error page"]

----------------------------------------------------------------------------
(* sapi_request_cb, lines 114-245: everything before the Enqueue call *)

SAPI_VERSION_MAJOR == 1

\* SAPI::versionSubPath = strprintf("/v%d", SAPI_VERSION_MAJOR)
versionSubPath == << "/", "v", ToString(SAPI_VERSION_MAJOR) >>

\* std::string::substr(pos, n) and substr(pos)
Substr(s, pos, n) ==
    SubSeq(s, pos + 1, IF pos + n < Len(s) THEN pos + n ELSE Len(s))
SubstrFrom(s, pos) == SubSeq(s, pos + 1, Len(s))

NoReply == RawReply(0, "")

EarlyChecks_AddressFirst(req) ==
    IF ~req.peerValid
    THEN ErrorReply(403, "Access forbidden")
    ELSE IF req.warmup
    THEN ErrorReply(503, "Service temporarily unavailable")
    ELSE IF req.method = "UNKNOWN"
    THEN ErrorReply(405, "Invalid method")
    ELSE IF Substr(req.uri, 0, Len(versionSubPath)) # versionSubPath
    THEN ErrorReply(404, "Invalid api version. Use: <host>/v1/<endpoint>")
    ELSE LET strURI == SubstrFrom(req.uri, Len(versionSubPath)) IN
         IF Len(strURI) = 0 \/ Front(strURI) # "/"
         THEN ErrorReply(404, "Endpoint missing. Use: <host>/v1/<endpoint>")
         ELSE NoReply

\* lines 121-151: the reply of the first failing check, NoReply if all pass
EarlyChecks(req) ==
    IF req.warmup
    THEN ErrorReply(503, "Service temporarily unavailable")
    ELSE IF ~req.peerValid
    THEN ErrorReply(403, "Access forbidden")
    ELSE IF req.method = "UNKNOWN"
    THEN ErrorReply(405, "Invalid method")
    ELSE IF Substr(req.uri, 0, Len(versionSubPath)) # versionSubPath
    THEN ErrorReply(404, "Invalid api version. Use: <host>/v1/<endpoint>")
    ELSE LET strURI == SubstrFrom(req.uri, Len(versionSubPath)) IN
         IF Len(strURI) = 0 \/ Front(strURI) # "/"
         THEN ErrorReply(404, "Endpoint missing. Use: <host>/v1/<endpoint>")
         ELSE NoReply

\* lines 153-219: mapPathMatch as a set of [ptr, params], and whether the
\* matching called front() on an empty string
PathMatches(uri) ==
    LET strURI == SubstrFrom(uri, Len(versionSubPath))
        parts == SplitPath(SubstrFrom(strURI, 1))
        pathGroup == Head(parts)
        partsURI == Tail(parts)
        cand == IF Len(partsURI) = 0 THEN {}
                ELSE { p \in EndpointPtrs : endpointGroups[p[1]].prefix = pathGroup }
    IN  [matches |-> { [ptr |-> p, params |-> EndpointMatch(partsURI, EndpointAt(p).path).params] :
                         p \in { q \in cand : EndpointMatch(partsURI, EndpointAt(q).path).fMatch } },
         ub |-> \E p \in cand : EndpointMatch(partsURI, EndpointAt(p).path).ub]

RECURSIVE InPtrOrder(_, _)
\* the entries of mapPathMatch in the map's iteration order
InPtrOrder(heap, matches) ==
    IF matches = {} THEN << >>
    ELSE LET m == CHOOSE x \in matches : \A y \in matches : y = x \/ PtrLess(heap, x.ptr, y.ptr)
         IN  << m >> \o InPtrOrder(heap, matches \ { m })

RECURSIVE MethodsOf(_)
MethodsOf(ms) ==
    IF Len(ms) = 0 THEN << >>
    ELSE << EndpointAt(Head(ms).ptr).method >> \o MethodsOf(Tail(ms))

RECURSIVE FindMethod(_, _)
\* std::find_if over mapPathMatch: the first entry of the request's method
FindMethod(ms, method) ==
    IF Len(ms) = 0 THEN << >>
    ELSE IF EndpointAt(Head(ms).ptr).method = method THEN << Head(ms) >>
    ELSE FindMethod(Tail(ms), method)

\* lines 221-255 up to the Enqueue call: the OPTIONS reply, the work item to
\* enqueue, or the unknown-endpoint reply
AfterMatch(req, heap, matches) ==
    LET ms == InPtrOrder(heap, matches) IN
    IF matches # {} /\ req.method = "OPTIONS"
    THEN [kind |-> "reply", reply |-> OptionsReply(<< "OPTIONS" >> \o MethodsOf(ms)),
          ptr |-> << 0, 0 >>, params |-> {}]
    ELSE LET fullMatch == FindMethod(ms, req.method) IN
         IF Len(fullMatch) # 0
         THEN [kind |-> "enqueue", reply |-> NoReply,
               ptr |-> fullMatch[1].ptr, params |-> fullMatch[1].params]
         ELSE [kind |-> "reply", reply |-> ErrorReply(404, "Invalid endpoint"),
               ptr |-> << 0, 0 >>, params |-> {}]

\* the callback up to line 245 on one request: what it does, and whether it
\* ran into front() on an empty string on the way
Dispatch(req, heap) ==
    LET early == EarlyChecks(req) IN
    IF early # NoReply
    THEN [kind |-> "reply", reply |-> early, ptr |-> << 0, 0 >>, params |-> {}, ub |-> FALSE]
    ELSE LET pm == PathMatches(req.uri)
             am == AfterMatch(req, heap, pm.matches)
         IN  [kind |-> am.kind, reply |-> am.reply, ptr |-> am.ptr,
              params |-> am.params, ub |-> pm.ub]

----------------------------------------------------------------------------
(* WorkQueue<HTTPClosure>: the class is declared outside sapi.cpp; its      *)
(* operations follow the WorkQueue section of the specification.            *)

NoItem == [req |-> 0, ptr |-> << 0, 0 >>, params |-> {}]

WorkQueue_CanEnqueue_NoDepthCheck(q, run, depth) == run

\* Enqueue's atomic check: running and fewer than maxDepth items queued
WorkQueue_CanEnqueue(q, run, depth) == run /\ Len(q) < depth

WorkQueue_Front_Last(q) == q[Len(q)]

\* Dequeue takes the oldest item
WorkQueue_Front(q) == Head(q)

WorkQueue_Rest_KeepFront(q) == q

\* what Dequeue leaves in the queue
WorkQueue_Rest(q) == Tail(q)

\* Dequeue returns empty, and the worker leaves Run, when the queue is
\* interrupted and drained
WorkQueue_WorkerMayExit(q, run) == ~run /\ Len(q) = 0

\* WaitExit returns once every worker thread has returned
WorkQueue_AllExited(w, h) == w.waiting = 0 /\ \A i \in DOMAIN h : Len(h[i]) = 0

----------------------------------------------------------------------------
(* Requests *)

ReqIds == 1..MaxRequests

Methods == { "GET", "POST", "OPTIONS", "UNKNOWN" }

Str_v1_a_x_y == << "/", "v", "1", "/", "a", "/", "x", "/", "y" >>

Request(method, uri, peerValid, warmup) ==
    [method |-> method, uri |-> uri, peerValid |-> peerValid, warmup |-> warmup]

\* requests drawn while the whole server runs
SysRequests ==
    { Request("GET", Str_v1_a_x_y \o << "/" >>, TRUE, FALSE),
      Request("OPTIONS", Str_v1_a_x_y, TRUE, FALSE) }

NoCur == [id |-> 0, req |-> Request("UNKNOWN", EmptyStr, FALSE, FALSE)]

----------------------------------------------------------------------------
(* State after program start: all globals zero *)

SysInit ==
    /\ workQueue = "null"
    /\ eventBaseSAPI = FALSE
    /\ eventSAPI = FALSE
    /\ boundSocketsSAPI = {}
    /\ threadSAPI = "none"
    /\ heapOrder \in HeapOrders
    /\ queue = << >>
    /\ running = FALSE
    /\ maxDepth = 0
    /\ gencb = "request"
    /\ listening = FALSE
    /\ loopbreak = FALSE
    /\ ctl = [pc |-> "idle", called |-> {}]
    /\ cb = [pc |-> "idle", item |-> NoItem]
    /\ worker = [waiting |-> 0, exited |-> 0]
    /\ held = [i \in ReqIds |-> << >>]
    /\ crashed = FALSE
    /\ nextId = 1
    /\ cur = NoCur
    /\ replies = [i \in ReqIds |-> << >>]
    /\ enq = [i \in ReqIds |-> "none"]
    /\ execs = [i \in ReqIds |-> 0]
    /\ enqOrder = << >>
    /\ takenOrder = << >>
    /\ queuedAtInterrupt = {}
    /\ burst = << >>
    /\ burstOn = FALSE

Max(a, b) == IF a > b THEN a ELSE b

ListenAddrs == { "::", "0.0.0.0" }

----------------------------------------------------------------------------
(* Controlling thread: InitSAPIServer, StartSAPIServer, InterruptSAPIServer, *)
(* StopSAPIServer, each called at most once and in this order.              *)

CtlIdle == ~crashed /\ ctl.pc = "idle"

Called(f) == f \in ctl.called

InitSAPIServer_QueueOnBindFailure(baseOk, httpOk, binds, arg) ==
    /\ CtlIdle /\ ctl.called = {}
    /\ IF baseOk /\ httpOk
       THEN /\ boundSocketsSAPI' = boundSocketsSAPI \cup binds
            /\ workQueue' = "live"
            /\ queue' = << >>
            /\ running' = TRUE
            /\ maxDepth' = Max(arg, 1)
            /\ eventBaseSAPI' = TRUE
            /\ eventSAPI' = TRUE
            /\ gencb' = "request"
            /\ listening' = (boundSocketsSAPI' # {})
            /\ burstOn' = TRUE
            /\ ctl' = [ctl EXCEPT !.called =
                                    IF boundSocketsSAPI' # {} THEN { "Init" }
                                    ELSE { "InitFailed" }]
       ELSE /\ ctl' = [ctl EXCEPT !.called = { "InitFailed" }]
            /\ UNCHANGED << workQueue, queue, running, maxDepth, eventBaseSAPI,
                            eventSAPI, gencb, listening, burstOn, boundSocketsSAPI >>
    /\ UNCHANGED << threadSAPI, heapOrder, loopbreak, cb, worker, held, crashed, nextId,
                    cur, replies, enq, execs, enqOrder, takenOrder,
                    queuedAtInterrupt, burst, matchVars, execVars >>

\* InitSAPIServer (lines 317-375); baseOk, httpOk: the allocations succeed;
\* binds: the addresses evhttp_bind_socket_with_handle binds; arg: -sapiworkqueue
InitSAPIServer(baseOk, httpOk, binds, arg) ==
    /\ CtlIdle /\ ctl.called = {}
    /\ IF baseOk /\ httpOk
       THEN /\ boundSocketsSAPI' = boundSocketsSAPI \cup binds
            /\ IF boundSocketsSAPI' # {}
               THEN /\ workQueue' = "live"
                    /\ queue' = << >>
                    /\ running' = TRUE
                    /\ maxDepth' = Max(arg, 1)
                    /\ eventBaseSAPI' = TRUE
                    /\ eventSAPI' = TRUE
                    /\ gencb' = "request"
                    /\ listening' = TRUE
                    /\ burstOn' = TRUE
                    /\ ctl' = [ctl EXCEPT !.called = { "Init" }]
               ELSE /\ ctl' = [ctl EXCEPT !.called = { "InitFailed" }]
                    /\ UNCHANGED << workQueue, queue, running, maxDepth, eventBaseSAPI,
                                    eventSAPI, gencb, listening, burstOn >>
       ELSE /\ ctl' = [ctl EXCEPT !.called = { "InitFailed" }]
            /\ UNCHANGED << workQueue, queue, running, maxDepth, eventBaseSAPI,
                            eventSAPI, gencb, listening, burstOn, boundSocketsSAPI >>
    /\ UNCHANGED << threadSAPI, heapOrder, loopbreak, cb, worker, held, crashed, nextId,
                    cur, replies, enq, execs, enqOrder, takenOrder,
                    queuedAtInterrupt, burst, matchVars, execVars >>

\* StartSAPIServer (lines 379-389); arg: -sapithreads
StartSAPIServer(arg) ==
    /\ CtlIdle /\ ctl.called = { "Init" }
    /\ threadSAPI' = "running"
    /\ worker' = [waiting |-> Max(arg, 1), exited |-> 0]
    /\ ctl' = [ctl EXCEPT !.called = @ \cup { "Start" }]
    /\ UNCHANGED << workQueue, eventBaseSAPI, eventSAPI, boundSocketsSAPI, heapOrder, queue,
                    running, maxDepth, gencb, listening, loopbreak, cb, held, crashed,
                    nextId, cur, replies, enq, execs, enqOrder, takenOrder,
                    queuedAtInterrupt, burst, burstOn, matchVars, execVars >>

InterruptSAPIServer_Engine_NoReject ==
    /\ CtlIdle
    /\ ~Called("Interrupt") /\ ~Called("Stop") /\ ctl.called # {}
    /\ IF eventSAPI
       THEN listening' = FALSE /\ gencb' = gencb
       ELSE UNCHANGED << listening, gencb >>
    /\ ctl' = [ctl EXCEPT !.pc = "interrupt_queue"]
    /\ UNCHANGED << workQueue, eventBaseSAPI, eventSAPI, boundSocketsSAPI, threadSAPI,
                    heapOrder, queue, running, maxDepth, loopbreak, cb, worker, held,
                    crashed, nextId, cur, replies, enq, execs, enqOrder, takenOrder,
                    queuedAtInterrupt, burst, burstOn, matchVars, execVars >>

\* InterruptSAPIServer, lines 393-401: unlisten and install the reject callback
InterruptSAPIServer_Engine ==
    /\ CtlIdle
    /\ ~Called("Interrupt") /\ ~Called("Stop") /\ ctl.called # {}
    /\ IF eventSAPI
       THEN listening' = FALSE /\ gencb' = "reject"
       ELSE UNCHANGED << listening, gencb >>
    /\ ctl' = [ctl EXCEPT !.pc = "interrupt_queue"]
    /\ UNCHANGED << workQueue, eventBaseSAPI, eventSAPI, boundSocketsSAPI, threadSAPI,
                    heapOrder, queue, running, maxDepth, loopbreak, cb, worker, held,
                    crashed, nextId, cur, replies, enq, execs, enqOrder, takenOrder,
                    queuedAtInterrupt, burst, burstOn, matchVars, execVars >>

QueuedIds(q) == { q[i].req : i \in 1..Len(q) }

\* InterruptSAPIServer, lines 402-403: workQueue->Interrupt()
InterruptSAPIServer_Queue ==
    /\ ~crashed /\ ctl.pc = "interrupt_queue"
    /\ IF workQueue # "null"
       THEN /\ running' = FALSE
            /\ queuedAtInterrupt' = QueuedIds(queue)
            /\ burstOn' = FALSE
       ELSE UNCHANGED << running, queuedAtInterrupt, burstOn >>
    /\ ctl' = [pc |-> "idle", called |-> ctl.called \cup { "Interrupt" }]
    /\ UNCHANGED << workQueue, eventBaseSAPI, eventSAPI, boundSocketsSAPI, threadSAPI,
                    heapOrder, queue, maxDepth, gencb, listening, loopbreak, cb, worker,
                    held, crashed, nextId, cur, replies, enq, execs, enqOrder,
                    takenOrder, burst, matchVars, execVars >>

StopSAPIServer_WaitExit_NoWait ==
    /\ CtlIdle
    /\ ~Called("Stop")
    /\ ctl' = [ctl EXCEPT !.pc = IF workQueue # "null" THEN "stop_delete" ELSE "stop_join"]
    /\ UNCHANGED << workQueue, eventBaseSAPI, eventSAPI, boundSocketsSAPI, threadSAPI,
                    heapOrder, queue, running, maxDepth, gencb, listening, loopbreak, cb,
                    worker, held, crashed, nextId, cur, replies, enq, execs, enqOrder,
                    takenOrder, queuedAtInterrupt, burst, burstOn, matchVars, execVars >>

\* StopSAPIServer, lines 409-411: workQueue->WaitExit() when there is a queue
StopSAPIServer_WaitExit ==
    /\ CtlIdle
    /\ ~Called("Stop")
    /\ workQueue # "null" => WorkQueue_AllExited(worker, held)
    /\ ctl' = [ctl EXCEPT !.pc = IF workQueue # "null" THEN "stop_delete" ELSE "stop_join"]
    /\ UNCHANGED << workQueue, eventBaseSAPI, eventSAPI, boundSocketsSAPI, threadSAPI,
                    heapOrder, queue, running, maxDepth, gencb, listening, loopbreak, cb,
                    worker, held, crashed, nextId, cur, replies, enq, execs, enqOrder,
                    takenOrder, queuedAtInterrupt, burst, burstOn, matchVars, execVars >>

\* StopSAPIServer, line 412: delete workQueue; the pointer is left dangling
StopSAPIServer_Delete ==
    /\ ~crashed /\ ctl.pc = "stop_delete"
    /\ workQueue' = "deleted"
    /\ queue' = << >>
    /\ burstOn' = FALSE
    /\ ctl' = [ctl EXCEPT !.pc = "stop_join"]
    /\ UNCHANGED << eventBaseSAPI, eventSAPI, boundSocketsSAPI, threadSAPI, heapOrder,
                    running, maxDepth, gencb, listening, loopbreak, cb, worker, held,
                    crashed, nextId, cur, replies, enq, execs, enqOrder, takenOrder,
                    queuedAtInterrupt, burst, matchVars, execVars >>

\* StopSAPIServer, lines 414-428: the timed join of the accept-loop thread;
\* it succeeds when the thread has exited; otherwise (still running, or never
\* started) it returns false and the loop is broken
StopSAPIServer_TimedJoin ==
    /\ ~crashed /\ ctl.pc = "stop_join"
    /\ IF eventBaseSAPI /\ threadSAPI # "exited"
       THEN loopbreak' = TRUE /\ ctl' = [ctl EXCEPT !.pc = "stop_join2"]
       ELSE UNCHANGED loopbreak /\ ctl' = [ctl EXCEPT !.pc = "stop_free"]
    /\ UNCHANGED << workQueue, eventBaseSAPI, eventSAPI, boundSocketsSAPI, threadSAPI,
                    heapOrder, queue, running, maxDepth, gencb, listening, cb, worker, held,
                    crashed, nextId, cur, replies, enq, execs, enqOrder, takenOrder,
                    queuedAtInterrupt, burst, burstOn, matchVars, execVars >>

StopSAPIServer_Join_NoWait ==
    /\ ~crashed /\ ctl.pc = "stop_join2"
    /\ ctl' = [ctl EXCEPT !.pc = "stop_free"]
    /\ UNCHANGED << workQueue, eventBaseSAPI, eventSAPI, boundSocketsSAPI, threadSAPI,
                    heapOrder, queue, running, maxDepth, gencb, listening, loopbreak, cb,
                    worker, held, crashed, nextId, cur, replies, enq, execs, enqOrder,
                    takenOrder, queuedAtInterrupt, burst, burstOn, matchVars, execVars >>

\* StopSAPIServer, line 429: threadSAPI.join()
StopSAPIServer_Join ==
    /\ ~crashed /\ ctl.pc = "stop_join2"
    /\ threadSAPI # "running"
    /\ ctl' = [ctl EXCEPT !.pc = "stop_free"]
    /\ UNCHANGED << workQueue, eventBaseSAPI, eventSAPI, boundSocketsSAPI, threadSAPI,
                    heapOrder, queue, running, maxDepth, gencb, listening, loopbreak, cb,
                    worker, held, crashed, nextId, cur, replies, enq, execs, enqOrder,
                    takenOrder, queuedAtInterrupt, burst, burstOn, matchVars, execVars >>

\* StopSAPIServer, lines 432-440: release the engine and the event base
StopSAPIServer_Free ==
    /\ ~crashed /\ ctl.pc = "stop_free"
    /\ eventSAPI' = FALSE
    /\ eventBaseSAPI' = FALSE
    /\ ctl' = [pc |-> "idle", called |-> ctl.called \cup { "Stop" }]
    /\ UNCHANGED << workQueue, boundSocketsSAPI, threadSAPI, heapOrder, queue, running,
                    maxDepth, gencb, listening, loopbreak, cb, worker, held, crashed,
                    nextId, cur, replies, enq, execs, enqOrder, takenOrder,
                    queuedAtInterrupt, burst, burstOn, matchVars, execVars >>

\* StopSAPIServer called again after a completed Stop. eventSAPI and
\* eventBaseSAPI were zeroed (lines 434, 438), so lines 414-440 do nothing;
\* workQueue was not, so with a queue once created lines 408-412 call
\* WaitExit() on the deleted queue and delete it a second time: the call may
\* return with nothing visibly changed, abort the process, or never return.
\* Without a queue the call returns and changes nothing.
StopSAPIServer_Again(outcome) ==
    /\ CtlIdle
    /\ Called("Stop") /\ ~Called("StopAgain")
    /\ IF workQueue = "null"
       THEN /\ outcome = "returns"
            /\ ctl' = [ctl EXCEPT !.called = @ \cup { "StopAgain" }]
            /\ UNCHANGED crashed
       ELSE \/ /\ outcome = "returns"
               /\ ctl' = [ctl EXCEPT !.called = @ \cup { "StopAgain" }]
               /\ UNCHANGED crashed
            \/ /\ outcome = "abort"
               /\ ctl' = [ctl EXCEPT !.pc = "stop_again"]
               /\ crashed' = TRUE
            \/ /\ outcome = "hang"
               /\ ctl' = [ctl EXCEPT !.pc = "stop_again"]
               /\ UNCHANGED crashed
    /\ UNCHANGED << workQueue, eventBaseSAPI, eventSAPI, boundSocketsSAPI, threadSAPI,
                    heapOrder, queue, running, maxDepth, gencb, listening, loopbreak, cb,
                    worker, held, nextId, cur, replies, enq, execs, enqOrder,
                    takenOrder, queuedAtInterrupt, burst, burstOn, matchVars, execVars >>

----------------------------------------------------------------------------
(* Executor: SAPIValidateBody and SAPIExecuteEndpoint (lines 444-611)       *)

\* a request body as ReadBody and the JSON parser see it: empty text, text
\* that does not parse, or a value with its root kind and, for an object, the
\* kind of each key's value and what the validator's check does with it:
\* accepts it, rejects it with a Result, or throws
Body(kind, root, vals) == [kind |-> kind, root |-> root, vals |-> vals]

KeyVal(key, type, valid) ==
    [key |-> key, type |-> type, valid |-> valid, throws |-> FALSE]

\* a value on which param.validator->Validate raises an exception
KeyValThrowing(key, type) ==
    [key |-> key, type |-> type, valid |-> FALSE, throws |-> TRUE]

BodyExists(body, key) == \E v \in body.vals : v.key = key

BodyAt(body, key) == CHOOSE v \in body.vals : v.key = key

ResultReply(status, results) ==
    [status |-> status,
     headers |-> DefaultHeaders \cup { "Content-Type" },
     allow |-> << >>,
     errors |-> results,
     text |-> ""]

ParameterBaseCheck_NoTypeCheck(body, param) ==
    IF ~BodyExists(body, param.key) /\ ~param.optional
    THEN [code |-> "ParameterMissing", message |-> param.key]
    ELSE [code |-> "Valid", message |-> ""]

\* ParameterBaseCheck (lines 444-492): the Result for one parameter
ParameterBaseCheck(body, param) ==
    IF ~BodyExists(body, param.key) /\ ~param.optional
    THEN [code |-> "ParameterMissing", message |-> param.key]
    ELSE IF BodyExists(body, param.key) /\ BodyAt(body, param.key).type # param.type
    THEN [code |-> "InvalidType", message |-> param.key]
    ELSE [code |-> "Valid", message |-> ""]

\* one pass of the loop body (lines 581-594): the Results it pushes,
\* whether param.validator->Validate was called, and whether that call
\* raised an exception, which nothing in the loop catches
ParamStep(body, param) ==
    LET result == ParameterBaseCheck(body, param) IN
    IF result.code # "Valid"
    THEN [results |-> << result >>, validated |-> FALSE, thrown |-> FALSE]
    ELSE IF BodyExists(body, param.key)
    THEN IF BodyAt(body, param.key).throws
         THEN [results |-> << >>, validated |-> TRUE, thrown |-> TRUE]
         ELSE [results |-> IF ~BodyAt(body, param.key).valid
                           THEN << [code |-> "InvalidValue", message |-> param.key] >>
                           ELSE << >>,
               validated |-> TRUE, thrown |-> FALSE]
    ELSE [results |-> << >>, validated |-> FALSE, thrown |-> FALSE]

RECURSIVE ValidateParams_FirstOnly(_, _)
ValidateParams_FirstOnly(body, params) ==
    IF Len(params) = 0 THEN << >>
    ELSE IF ParamStep(body, Head(params)).results # << >>
    THEN ParamStep(body, Head(params)).results
    ELSE ValidateParams_FirstOnly(body, Tail(params))

RECURSIVE ValidateParams(_, _)
\* the loop of lines 579-595: the Results collected, in declaration order
ValidateParams(body, params) ==
    IF Len(params) = 0 THEN << >>
    ELSE ParamStep(body, Head(params)).results
            \o ValidateParams(body, Tail(params))

\* the checks of lines 538-575 all pass, so the loop of lines 579-595 runs
ParamsReached(endpoint, body) ==
    /\ endpoint.bodyRoot = "VARR" \/ endpoint.bodyRoot = "VOBJ"
    /\ body.kind # "empty"
    /\ body.kind # "malformed"
    /\ ~(endpoint.bodyRoot = "VOBJ" /\ body.root # "VOBJ")
    /\ ~(endpoint.bodyRoot = "VARR" /\ body.root # "VARR")

\* the declared positions whose check raises an exception
ThrowingAt(endpoint, body) ==
    { i \in 1..Len(endpoint.vecBodyParameter) :
         ParamStep(body, endpoint.vecBodyParameter[i]).thrown }

\* the loop of lines 579-595 is left by an exception: SAPIValidateBody has
\* no handler around it (the try of lines 546-570 ends before), so the
\* exception leaves SAPIValidateBody with the Results collected so far
\* unsent
SAPIValidateBody_Throws(endpoint, body) ==
    ParamsReached(endpoint, body) /\ ThrowingAt(endpoint, body) # {}

\* the last declared position the loop visits
LastVisited(endpoint, body) ==
    IF ThrowingAt(endpoint, body) = {} THEN Len(endpoint.vecBodyParameter)
    ELSE CHOOSE i \in ThrowingAt(endpoint, body) :
            \A j \in ThrowingAt(endpoint, body) : i <= j

\* what the loop of lines 579-595 did for each declared parameter it
\* visited, in declaration order; empty when the loop is not reached
SAPIValidateBody_Scan(endpoint, body) ==
    IF ParamsReached(endpoint, body)
    THEN [i \in 1..LastVisited(endpoint, body) |->
             ParamStep(body, endpoint.vecBodyParameter[i])]
    ELSE << >>

\* SAPIValidateBody (lines 535-601): NoReply when it returns true, else the
\* 400 reply it wrote
SAPIValidateBody(endpoint, body) ==
    IF endpoint.bodyRoot # "VARR" /\ endpoint.bodyRoot # "VOBJ"
    THEN NoReply
    ELSE IF body.kind = "empty"
    THEN ErrorReply(400, "No body parameter object defined in the body")
    ELSE IF body.kind = "malformed"
    THEN ErrorReply(400, "Error: Error parsing JSON")
    ELSE IF endpoint.bodyRoot = "VOBJ" /\ body.root # "VOBJ"
    THEN ErrorReply(400, "Parameter json is expedted to be a JSON object")
    ELSE IF endpoint.bodyRoot = "VARR" /\ body.root # "VARR"
    THEN ErrorReply(400, "Parameter json is expedted to be a JSON array")
    ELSE LET results == ValidateParams(body, endpoint.vecBodyParameter) IN
         IF Len(results) # 0 THEN ResultReply(400, results) ELSE NoReply

\* what an endpoint's handler writes: a reply through SAPI::WriteReply
\* (lines 657-669), or an error through SAPI::Error
HandlerOk ==
    [status |-> 200, headers |-> DefaultHeaders \cup { "Content-Type" },
     allow |-> << >>, errors |-> << >>, text |-> "handler reply"]

HandlerReplies ==
    { HandlerOk,
      ResultReply(400, << [code |-> "HandlerError", message |-> "handler error"] >>) }

\* handler replies drawn while the whole server runs
SysHandlerReplies == { HandlerOk }

\* the UniValue bodyParameter after SAPIValidateBody returned true: null when
\* the endpoint declares no array or object root (the body is not read), else
\* the parsed body
BodyParameterOf(endpoint, body) ==
    IF endpoint.bodyRoot # "VARR" /\ endpoint.bodyRoot # "VOBJ"
    THEN [root |-> "VNULL", vals |-> {}]
    ELSE [root |-> body.root, vals |-> body.vals]

NoBodyParameter == [root |-> "none", vals |-> {}]

SAPIExecuteEndpoint_Run_Ungated(endpoint, body, handlerReply) ==
    [replies |-> (IF SAPIValidateBody(endpoint, body) # NoReply
                  THEN << SAPIValidateBody(endpoint, body) >> ELSE << >>)
                 \o << handlerReply >>,
     handlerCalls |-> 1,
     bodyRead |-> (endpoint.bodyRoot = "VARR" \/ endpoint.bodyRoot = "VOBJ"),
     bodyParameter |-> BodyParameterOf(endpoint, body),
     escaped |-> FALSE]

\* SAPIExecuteEndpoint (lines 603-611): the replies written, how often the
\* handler was invoked and with which body value, whether ReadBody was
\* called, and whether an exception left the function: it has no handler
\* either, so what leaves SAPIValidateBody leaves it too
SAPIExecuteEndpoint_Run(endpoint, body, handlerReply) ==
    LET v == SAPIValidateBody(endpoint, body) IN
    IF SAPIValidateBody_Throws(endpoint, body)
    THEN [replies |-> << >>, handlerCalls |-> 0,
          bodyRead |-> TRUE, bodyParameter |-> NoBodyParameter,
          escaped |-> TRUE]
    ELSE IF v # NoReply
    THEN [replies |-> << v >>, handlerCalls |-> 0,
          bodyRead |-> TRUE, bodyParameter |-> NoBodyParameter,
          escaped |-> FALSE]
    ELSE [replies |-> << handlerReply >>, handlerCalls |-> 1,
          bodyRead |-> (endpoint.bodyRoot = "VARR" \/ endpoint.bodyRoot = "VOBJ"),
          bodyParameter |-> BodyParameterOf(endpoint, body),
          escaped |-> FALSE]

\* SAPIExecuteEndpoint (lines 603-611): the reply written for the item
SAPIExecuteEndpoint(endpoint, body, handlerReply) ==
    SAPIExecuteEndpoint_Run(endpoint, body, handlerReply).replies[1]

\* bodies drawn while the whole server runs
SysBodies == { Body("empty", "VNULL", {}) }

----------------------------------------------------------------------------
(* Accept-loop thread: ThreadSAPI runs the event loop, which calls the      *)
(* callback installed with evhttp_set_gencb for each request.               *)

AcceptIdle == ~crashed /\ threadSAPI = "running" /\ cb.pc = "idle"

CanDeliver == AcceptIdle /\ eventSAPI /\ ~loopbreak /\ nextId <= MaxRequests

AddReply(id, reply) == [replies EXCEPT ![id] = Append(@, reply)]

\* sapi_request_cb up to line 245: the reply is written in the callback, or
\* the work item is built and the callback stands before Enqueue
RequestCb(req, track) ==
    /\ CanDeliver /\ gencb = "request"
    /\ LET out == Dispatch(req, heapOrder) IN
       /\ cur' = IF track THEN [id |-> nextId, req |-> req] ELSE cur
       /\ nextId' = nextId + 1
       /\ IF out.kind = "reply"
          THEN /\ replies' = AddReply(nextId, out.reply)
               /\ cb' = cb
          ELSE /\ cb' = [pc |-> "enqueue",
                         item |-> [req |-> nextId, ptr |-> out.ptr, params |-> out.params]]
               /\ replies' = replies
    /\ UNCHANGED << workQueue, eventBaseSAPI, eventSAPI, boundSocketsSAPI, threadSAPI,
                    heapOrder, queue, running, maxDepth, gencb, listening, loopbreak,
                    ctl, worker, held, crashed, enq, execs, enqOrder, takenOrder,
                    queuedAtInterrupt, burst, burstOn, matchVars, execVars >>

\* front() on an empty path part (line 197) is undefined: a build with
\* library assertions aborts the process there
RequestCbAbort(req, track) ==
    /\ CanDeliver /\ gencb = "request"
    /\ EarlyChecks(req) = NoReply
    /\ PathMatches(req.uri).ub
    /\ cur' = IF track THEN [id |-> nextId, req |-> req] ELSE cur
    /\ nextId' = nextId + 1
    /\ crashed' = TRUE
    /\ UNCHANGED << workQueue, eventBaseSAPI, eventSAPI, boundSocketsSAPI, threadSAPI,
                    heapOrder, queue, running, maxDepth, gencb, listening, loopbreak,
                    ctl, cb, worker, held, replies, enq, execs, enqOrder, takenOrder,
                    queuedAtInterrupt, burst, burstOn, matchVars, execVars >>

\* sapi_reject_request_cb (lines 259-263)
RejectCb(req, track) ==
    /\ CanDeliver /\ gencb = "reject"
    /\ cur' = IF track THEN [id |-> nextId, req |-> req] ELSE cur
    /\ nextId' = nextId + 1
    /\ replies' = AddReply(nextId, RejectReply)
    /\ UNCHANGED << workQueue, eventBaseSAPI, eventSAPI, boundSocketsSAPI, threadSAPI,
                    heapOrder, queue, running, maxDepth, gencb, listening, loopbreak,
                    ctl, cb, worker, held, crashed, enq, execs, enqOrder, takenOrder,
                    queuedAtInterrupt, burst, burstOn, matchVars, execVars >>

QueueFullReply_Unavailable == RawReply(503, "Work queue depth exceeded")

\* line 251: the reply written when Enqueue returns false
QueueFullReply == RawReply(500, "Work queue depth exceeded")

\* the end of the callback once Enqueue has returned ok (lines 247-252)
AfterEnqueue(ok, how) ==
    LET id == cb.item.req IN
    /\ enq' = [enq EXCEPT ![id] = how]
    /\ enqOrder' = IF ok THEN Append(enqOrder, id) ELSE enqOrder
    /\ replies' = IF ok THEN replies ELSE AddReply(id, QueueFullReply)
    /\ cb' = [pc |-> "idle", item |-> NoItem]

\* lines 246-252 on the live queue: Enqueue, then release the item or reply 500
Enqueue ==
    /\ ~crashed /\ cb.pc = "enqueue" /\ workQueue = "live"
    /\ LET ok == WorkQueue_CanEnqueue(queue, running, maxDepth) IN
       /\ queue' = IF ok THEN Append(queue, cb.item) ELSE queue
       /\ burst' = IF burstOn THEN Append(burst, [id |-> cb.item.req, ok |-> ok]) ELSE burst
       /\ AfterEnqueue(ok, IF ok THEN "accepted" ELSE "rejected")
    /\ UNCHANGED << workQueue, eventBaseSAPI, eventSAPI, boundSocketsSAPI, threadSAPI,
                    heapOrder, running, maxDepth, gencb, listening, loopbreak, ctl,
                    worker, held, crashed, nextId, cur, execs, takenOrder,
                    queuedAtInterrupt, burstOn, matchVars, execVars >>

\* lines 246-252 after StopSAPIServer deleted the queue: Enqueue runs on freed
\* memory; it may return true (the item is written there and lost), return
\* false, bring the process down, or never return (the call of line 247
\* locks a destroyed mutex)
EnqueueDangling(outcome) ==
    /\ ~crashed /\ cb.pc = "enqueue" /\ workQueue = "deleted"
    /\ \/ outcome = "true" /\ AfterEnqueue(TRUE, "lost") /\ UNCHANGED crashed
       \/ outcome = "false" /\ AfterEnqueue(FALSE, "rejected") /\ UNCHANGED crashed
       \/ outcome = "crash" /\ crashed' = TRUE /\ UNCHANGED << enq, enqOrder, replies, cb >>
       \/ /\ outcome = "hang"
          /\ cb' = [cb EXCEPT !.pc = "hung"]
          /\ UNCHANGED << enq, enqOrder, replies, crashed >>
    /\ UNCHANGED << workQueue, eventBaseSAPI, eventSAPI, boundSocketsSAPI, threadSAPI,
                    heapOrder, queue, running, maxDepth, gencb, listening, loopbreak,
                    ctl, worker, held, nextId, cur, execs, takenOrder,
                    queuedAtInterrupt, burst, burstOn, matchVars, execVars >>

\* event_base_dispatch returns (lines 270-272): after a loopbreak, or when no
\* event is left once the accept sockets are gone
ThreadSAPI_Exit ==
    /\ AcceptIdle
    /\ loopbreak \/ ~listening
    /\ threadSAPI' = "exited"
    /\ UNCHANGED << workQueue, eventBaseSAPI, eventSAPI, boundSocketsSAPI, heapOrder,
                    queue, running, maxDepth, gencb, listening, loopbreak, ctl, cb,
                    worker, held, crashed, nextId, cur, replies, enq, execs, enqOrder,
                    takenOrder, queuedAtInterrupt, burst, burstOn, matchVars, execVars >>

----------------------------------------------------------------------------
(* Worker threads: SAPIWorkQueueRun (lines 298-302) runs WorkQueue.Run      *)

\* a worker takes the oldest item
WorkerDequeue ==
    /\ ~crashed /\ worker.waiting > 0 /\ workQueue = "live"
    /\ Len(queue) > 0
    /\ LET item == WorkQueue_Front(queue) IN
       /\ held' = [held EXCEPT ![item.req] = Append(@, item)]
       /\ takenOrder' = Append(takenOrder, item.req)
    /\ queue' = WorkQueue_Rest(queue)
    /\ worker' = [worker EXCEPT !.waiting = @ - 1]
    /\ burstOn' = (running /\ Len(queue') = 0)
    /\ burst' = << >>
    /\ UNCHANGED << workQueue, eventBaseSAPI, eventSAPI, boundSocketsSAPI, threadSAPI,
                    heapOrder, running, maxDepth, gencb, listening, loopbreak, ctl, cb,
                    crashed, nextId, cur, replies, enq, execs, enqOrder,
                    queuedAtInterrupt, matchVars, execVars >>

\* the worker holding an item of request id runs its entry point,
\* SAPIExecuteEndpoint, deletes the item and goes back to Dequeue
WorkerExecute(id, body, handlerReply) ==
    /\ ~crashed /\ Len(held[id]) > 0
    /\ LET item == Head(held[id]) IN
       replies' = AddReply(id, SAPIExecuteEndpoint(EndpointAt(item.ptr), body, handlerReply))
    /\ execs' = [execs EXCEPT ![id] = @ + 1]
    /\ held' = [held EXCEPT ![id] = Tail(@)]
    /\ worker' = [worker EXCEPT !.waiting = @ + 1]
    /\ UNCHANGED << workQueue, eventBaseSAPI, eventSAPI, boundSocketsSAPI, threadSAPI,
                    heapOrder, queue, running, maxDepth, gencb, listening, loopbreak,
                    ctl, cb, crashed, nextId, cur, enq, enqOrder, takenOrder,
                    queuedAtInterrupt, burst, burstOn, matchVars, execVars >>

\* a waiting worker leaves Run
WorkerExit ==
    /\ ~crashed /\ worker.waiting > 0 /\ workQueue = "live"
    /\ WorkQueue_WorkerMayExit(queue, running)
    /\ worker' = [waiting |-> worker.waiting - 1, exited |-> worker.exited + 1]
    /\ UNCHANGED << workQueue, eventBaseSAPI, eventSAPI, boundSocketsSAPI, threadSAPI,
                    heapOrder, queue, running, maxDepth, gencb, listening, loopbreak,
                    ctl, cb, held, crashed, nextId, cur, replies, enq, execs, enqOrder,
                    takenOrder, queuedAtInterrupt, burst, burstOn, matchVars, execVars >>

----------------------------------------------------------------------------
(* The whole server *)

NoExec ==
    [replies |-> << >>, handlerCalls |-> 0, bodyRead |-> FALSE,
     bodyParameter |-> NoBodyParameter, escaped |-> FALSE, done |-> FALSE]

\* the executor harness at rest
ExecIdle ==
    /\ vEndpoint = Endpoint(EmptyStr, "GET", "VNULL", << >>)
    /\ vBody = Body("empty", "VNULL", {})
    /\ vRes = NoExec

Init ==
    /\ SysInit
    /\ mT = << >> /\ mU = << >>
    /\ mRes = [fMatch |-> FALSE, params |-> {}, done |-> FALSE, aborted |-> FALSE]
    /\ ExecIdle

Next ==
    \/ \E baseOk, httpOk \in BOOLEAN, binds \in SUBSET ListenAddrs, arg \in 0..MaxDepthArg :
          InitSAPIServer(baseOk, httpOk, binds, arg)
    \/ \E arg \in 0..MaxThreadsArg : StartSAPIServer(arg)
    \/ InterruptSAPIServer_Engine
    \/ InterruptSAPIServer_Queue
    \/ StopSAPIServer_WaitExit
    \/ StopSAPIServer_Delete
    \/ StopSAPIServer_TimedJoin
    \/ StopSAPIServer_Join
    \/ StopSAPIServer_Free
    \/ \E outcome \in { "returns", "abort", "hang" } : StopSAPIServer_Again(outcome)
    \/ \E req \in SysRequests : RequestCb(req, FALSE)
    \/ \E req \in SysRequests : RequestCbAbort(req, FALSE)
    \/ \E req \in SysRequests : RejectCb(req, FALSE)
    \/ Enqueue
    \/ \E outcome \in { "true", "false", "crash", "hang" } : EnqueueDangling(outcome)
    \/ ThreadSAPI_Exit
    \/ WorkerDequeue
    \/ \E id \in ReqIds, body \in SysBodies, handlerReply \in SysHandlerReplies :
          WorkerExecute(id, body, handlerReply)
    \/ WorkerExit

Spec == Init /\ [][Next]_vars

\* Fair scheduling of the threads. The main thread, once in a call, takes its
\* next step, and calls StopSAPIServer after InterruptSAPIServer; the
\* accept-loop thread finishes the callback it is in and leaves
\* event_base_dispatch when it can; each worker takes an item, returns from
\* the handler it started, and leaves Run when it may. Requests arrive, and
\* Init, Start and Interrupt are called, only if the environment chooses.
Fairness ==
    /\ WF_vars(InterruptSAPIServer_Queue)
    /\ WF_vars(StopSAPIServer_WaitExit /\ Called("Interrupt"))
    /\ WF_vars(StopSAPIServer_Delete)
    /\ WF_vars(StopSAPIServer_TimedJoin)
    /\ WF_vars(StopSAPIServer_Join)
    /\ WF_vars(StopSAPIServer_Free)
    /\ WF_vars(Enqueue)
    /\ WF_vars(\E outcome \in { "true", "false", "crash", "hang" } : EnqueueDangling(outcome))
    /\ WF_vars(ThreadSAPI_Exit)
    /\ WF_vars(WorkerDequeue)
    /\ WF_vars(\E id \in ReqIds, body \in SysBodies, handlerReply \in SysHandlerReplies :
                  WorkerExecute(id, body, handlerReply))
    /\ WF_vars(WorkerExit)

SpecLive == Init /\ [][Next]_vars /\ Fairness

----------------------------------------------------------------------------
(* The dispatcher on a serving server: the state after InitSAPIServer and   *)
(* StartSAPIServer, with requests drawn from a wider set and remembered.    *)

Str(prefix, rest) == prefix \o rest

V1 == << "/", "v", "1" >>

DispatchUris ==
    { Str_v1_a_x_y,
      Str(Str_v1_a_x_y, << "/" >>),
      Str(Str_v1_a_x_y, << "/", "y" >>),
      Str(V1, << "/", "a", "/", "y", "/", "y" >>),
      Str(V1, << "/", "a", "/", "x" >>),
      Str(V1, << "/", "a" >>),
      Str(V1, << "/", "a", "/" >>),
      Str(V1, << "/", "a", "/", "/" >>),
      Str(V1, << "/", "b", "/", "x", "/", "y" >>),
      << "/", "v", "2", "/", "a", "/", "x", "/", "y" >>,
      V1,
      Str(V1, << "x", "/", "a" >>),
      EmptyStr }

DispatchRequests ==
    { Request(m, u, TRUE, FALSE) : m \in { "GET", "POST", "OPTIONS" }, u \in DispatchUris }
    \cup
    { Request(m, u, p, w) :
        m \in { "OPTIONS", "UNKNOWN" },
        u \in { Str_v1_a_x_y, << "/", "v", "2", "/", "a", "/", "x", "/", "y" >>, V1 },
        p \in BOOLEAN, w \in BOOLEAN }

DispatchInit ==
    /\ workQueue = "live"
    /\ eventBaseSAPI = TRUE
    /\ eventSAPI = TRUE
    /\ boundSocketsSAPI = ListenAddrs
    /\ threadSAPI = "running"
    /\ heapOrder \in HeapOrders
    /\ queue = << >>
    /\ running = TRUE
    /\ maxDepth = 1
    /\ gencb = "request"
    /\ listening = TRUE
    /\ loopbreak = FALSE
    /\ ctl = [pc |-> "idle", called |-> { "Init", "Start" }]
    /\ cb = [pc |-> "idle", item |-> NoItem]
    /\ worker = [waiting |-> 1, exited |-> 0]
    /\ held = [i \in ReqIds |-> << >>]
    /\ crashed = FALSE
    /\ nextId = 1
    /\ cur = NoCur
    /\ replies = [i \in ReqIds |-> << >>]
    /\ enq = [i \in ReqIds |-> "none"]
    /\ execs = [i \in ReqIds |-> 0]
    /\ enqOrder = << >>
    /\ takenOrder = << >>
    /\ queuedAtInterrupt = {}
    /\ burst = << >>
    /\ burstOn = TRUE
    /\ mT = << >> /\ mU = << >>
    /\ mRes = [fMatch |-> FALSE, params |-> {}, done |-> FALSE, aborted |-> FALSE]
    /\ ExecIdle

DispatchNext ==
    \/ \E req \in DispatchRequests : nextId <= MaxDispatched /\ RequestCb(req, TRUE)
    \/ \E req \in DispatchRequests : nextId <= MaxDispatched /\ RequestCbAbort(req, TRUE)
    \/ Enqueue
    \/ WorkerDequeue
    \/ \E id \in ReqIds, body \in SysBodies, handlerReply \in SysHandlerReplies :
          WorkerExecute(id, body, handlerReply)

SpecDispatch == DispatchInit /\ [][DispatchNext]_vars

----------------------------------------------------------------------------
(* Claims on the work queue and the lifecycle, under Spec *)

Range(f) == { f[i] : i \in DOMAIN f }

Ids(q) == [i \in 1..Len(q) |-> q[i].req]

RECURSIVE OkIds(_)
\* the requests of the successful calls of a burst, in order
OkIds(b) ==
    IF Len(b) = 0 THEN << >>
    ELSE (IF Head(b).ok THEN << Head(b).id >> ELSE << >>) \o OkIds(Tail(b))

\* C1: the queue never holds more than maxDepth items; and from an empty
\* running queue with no dequeue in between, the Enqueue calls return true up
\* to the maxDepth-th and false from the next on, the queue then holding
\* exactly the items of the calls that returned true.
C1_Capacity ==
    /\ workQueue = "live" => Len(queue) <= maxDepth
    /\ burstOn =>
         /\ \A i \in 1..Len(burst) : burst[i].ok <=> i <= maxDepth
         /\ Ids(queue) = OkIds(burst)

\* maxDepth calls were accepted and the next one refused, with a depth above one
C1_Witness ==
    /\ burstOn /\ maxDepth > 1
    /\ Len(burst) = maxDepth + 1
    /\ ~burst[Len(burst)].ok
    /\ Len(queue) = maxDepth

WaitExitReturned ==
    /\ workQueue # "null"
    /\ ctl.pc \in { "stop_delete", "stop_join", "stop_join2", "stop_free" } \/ Called("Stop")

\* C2: every item queued when Interrupt() ran is executed before WaitExit()
\* returns; Interrupt() drops none of them (each is queued, in a worker's
\* hands or executed); and when Stop destroys the queue every accepted item
\* has been executed.
C2_Drain ==
    /\ WaitExitReturned => \A id \in queuedAtInterrupt : execs[id] >= 1
    /\ \A id \in queuedAtInterrupt :
          id \in Range(Ids(queue)) \/ Len(held[id]) > 0 \/ execs[id] >= 1
    /\ workQueue = "deleted" => \A id \in ReqIds : enq[id] = "accepted" => execs[id] >= 1

\* the queue was destroyed after an interrupt that found two items queued
C2_Witness ==
    /\ workQueue = "deleted"
    /\ Cardinality(queuedAtInterrupt) >= 2

\* C3: once WorkQueue.Interrupt() has been called, an Enqueue call that
\* returns has returned false, the queue is as before and the dispatcher has
\* answered the request itself.
C3_NoAdmissionAfterInterrupt ==
    [][ (Called("Interrupt") /\ cb.pc = "enqueue" /\ cb'.pc = "idle")
          => /\ enq'[cb.item.req] = "rejected"
             /\ queue' = queue
             /\ Len(replies'[cb.item.req]) = 1 ]_vars

\* the same of the calls made while the queue exists: the only admissions
\* after an interrupt are those of Enqueue called on the deleted queue
C3_OnLiveQueue ==
    [][ (Called("Interrupt") /\ workQueue = "live" /\ cb.pc = "enqueue" /\ cb'.pc = "idle")
          => /\ enq'[cb.item.req] = "rejected"
             /\ queue' = queue
             /\ Len(replies'[cb.item.req]) = 1 ]_vars

\* after Interrupt() and the queue's deletion an Enqueue call returned true:
\* the request has no reply and its work item is in no queue
C3_AdmittedAfterInterrupt ==
    \E id \in ReqIds :
        /\ Called("Interrupt") /\ workQueue = "deleted"
        /\ enq[id] = "lost"
        /\ replies[id] = << >> /\ execs[id] = 0

\* after Interrupt() a request was refused by the queue, which held fewer
\* than maxDepth items
C3_RefusedAfterInterrupt ==
    \E id \in ReqIds :
        /\ Called("Interrupt") /\ workQueue = "live" /\ ~running
        /\ enq[id] = "rejected" /\ id \notin queuedAtInterrupt
        /\ Len(queue) < maxDepth

Count(seq, x) == Cardinality({ i \in 1..Len(seq) : seq[i] = x })

\* C4: each accepted work item is taken by at most one worker and executed at
\* most once: no two workers hold it, and only accepted items are taken.
C4_AtMostOnce ==
    \A id \in ReqIds :
        /\ Len(held[id]) <= 1
        /\ Count(takenOrder, id) <= 1
        /\ execs[id] + Len(held[id]) = Count(takenOrder, id)
        /\ Count(takenOrder, id) = 1 => enq[id] = "accepted"

\* two workers execute two different items at the same time
C4_Witness ==
    \E i, j \in ReqIds : i # j /\ Len(held[i]) = 1 /\ Len(held[j]) = 1

\* C5: items are dequeued in the order their Enqueue calls succeeded: the
\* sequence of dequeued requests is a prefix of the sequence of accepted ones.
C5_Fifo ==
    /\ Len(takenOrder) <= Len(enqOrder)
    /\ \A i \in 1..Len(takenOrder) : takenOrder[i] = enqOrder[i]

\* two items were dequeued, a refused request having come before the second
C5_Witness ==
    /\ Len(takenOrder) >= 2
    /\ \E id \in ReqIds : enq[id] = "rejected" /\ id < takenOrder[2]

\* C6: a request whose Enqueue returned false has exactly one reply, the 500
\* "Work queue depth exceeded", and its work item is neither queued nor taken
\* nor executed.
C6_QueueFullRejection ==
    \A id \in ReqIds :
        enq[id] = "rejected" =>
            /\ Len(replies[id]) = 1
            /\ replies[id][1].status = 500
            /\ replies[id][1].text = "Work queue depth exceeded"
            /\ id \notin Range(Ids(queue))
            /\ Len(held[id]) = 0
            /\ execs[id] = 0
            /\ Count(takenOrder, id) = 0

\* a request was refused by a running queue that was full
C6_Witness ==
    \E id \in ReqIds :
        /\ enq[id] = "rejected"
        /\ workQueue = "live" /\ running /\ Len(queue) = maxDepth
        /\ cb.pc = "idle"

----------------------------------------------------------------------------
(* Claims on the dispatcher, under SpecDispatch *)

\* a request was delivered to sapi_request_cb
Tracked == cur.id # 0

\* the callback of the tracked request has returned
CallbackReturned == Tracked /\ ~crashed

\* the version prefix and the slash after it, read off the URI's characters
HasVersion(uri) ==
    /\ Len(uri) >= 3
    /\ uri[1] = "/" /\ uri[2] = "v" /\ uri[3] = "1"

HasEndpointPart(uri) == Len(uri) >= 4 /\ uri[4] = "/"

PassedEarlyChecks(req) ==
    /\ ~req.warmup /\ req.peerValid /\ req.method # "UNKNOWN"
    /\ HasVersion(req.uri) /\ HasEndpointPart(req.uri)

\* mapPathMatch of the request: empty when the callback returned before line 153
MatchSet(req) == IF PassedEarlyChecks(req) THEN PathMatches(req.uri).matches ELSE {}

\* the work items that exist for request id
ItemsOf(id) ==
    { queue[i] : i \in { k \in 1..Len(queue) : queue[k].req = id } }
    \cup Range(held[id])
    \cup (IF cb.pc = "enqueue" /\ cb.item.req = id THEN { cb.item } ELSE {})

NothingEnqueued(id) == enq[id] = "none" /\ ItemsOf(id) = {} /\ execs[id] = 0

\* what C7 asks of the OPTIONS request in cur
OptionsAnswered ==
        /\ NothingEnqueued(cur.id)
        /\ Len(replies[cur.id]) = 1
        /\ LET r == replies[cur.id][1]
               ms == MatchSet(cur.req)
           IN  /\ r.status = 200
               /\ r.text = "" /\ r.errors = << >>
               /\ "Access-Control-Allow-Methods" \in r.headers
               /\ Len(r.allow) = 1 + Cardinality(ms)
               /\ r.allow[1] = "OPTIONS"
               /\ \A m \in Methods :
                     Count(Tail(r.allow), m) =
                        Cardinality({ x \in ms : EndpointAt(x.ptr).method = m })

\* C7: an OPTIONS request with a non-empty match set is never enqueued and is
\* answered in the callback with 200, an empty body and an
\* Access-Control-Allow-Methods value made of OPTIONS followed by the method
\* of every matched endpoint.
C7_OptionsShortCircuit ==
    (Tracked /\ cur.req.method = "OPTIONS" /\ MatchSet(cur.req) # {}) => OptionsAnswered

\* the same of the callbacks that return: the only OPTIONS requests with a
\* match left unanswered are those lost to front() on an empty path part
C7_WhenCallbackReturns ==
    (CallbackReturned /\ cur.req.method = "OPTIONS" /\ MatchSet(cur.req) # {})
        => OptionsAnswered

\* an OPTIONS request with a trailing slash whose path matches a template
\* brought the process down in the matching loop and has no reply
C7_Aborted ==
    /\ Tracked /\ crashed /\ cur.req.method = "OPTIONS"
    /\ MatchSet(cur.req) # {}
    /\ Back(cur.req.uri) = "/"
    /\ replies[cur.id] = << >>

\* an OPTIONS request matched endpoints of several methods, OPTIONS among them
C7_Answered ==
    /\ CallbackReturned /\ cur.req.method = "OPTIONS"
    /\ Len(replies[cur.id]) = 1 /\ replies[cur.id][1].status = 200
    /\ \E x, y \in MatchSet(cur.req) :
          EndpointAt(x.ptr).method = "OPTIONS" /\ EndpointAt(y.ptr).method = "POST"

MethodMatches(req) == { x \in MatchSet(req) : EndpointAt(x.ptr).method = req.method }

\* the request in cur is past the early checks and no endpoint matches its
\* path and method, the OPTIONS reply apart
NoEndpointFor(req) ==
    /\ PassedEarlyChecks(req)
    /\ MethodMatches(req) = {}
    /\ ~(req.method = "OPTIONS" /\ MatchSet(req) # {})

\* what C8 asks of the request in cur
UnknownAnswered ==
        /\ NoEndpointFor(cur.req)
           => /\ NothingEnqueued(cur.id)
              /\ Len(replies[cur.id]) = 1
              /\ replies[cur.id][1].status = 404
        /\ \A it \in ItemsOf(cur.id) :
              \E x \in MethodMatches(cur.req) : x.ptr = it.ptr /\ x.params = it.params

\* C8: a request past the early checks whose match set is empty, or holds no
\* endpoint of its method (the OPTIONS reply apart), is answered 404 and
\* nothing is enqueued; every work item is for an endpoint matching the
\* request's path and method.
C8_UnknownEndpoint == Tracked => UnknownAnswered

\* the same of the callbacks that return: the only such requests left without
\* their 404 are those lost to front() on an empty path part
C8_WhenCallbackReturns == CallbackReturned => UnknownAnswered

\* a request for which no endpoint matches path and method brought the
\* process down in the matching loop and has no reply
C8_Aborted ==
    /\ Tracked /\ crashed
    /\ NoEndpointFor(cur.req)
    /\ replies[cur.id] = << >>

\* a request matched a template but no endpoint of its method, and got 404
C8_Answered ==
    /\ CallbackReturned /\ PassedEarlyChecks(cur.req)
    /\ MatchSet(cur.req) # {} /\ MethodMatches(cur.req) = {}
    /\ cur.req.method # "OPTIONS"
    /\ Len(replies[cur.id]) = 1 /\ replies[cur.id][1].status = 404

\* the reply the first failing early check gives: status and message
FirstFailure(req) ==
    IF req.warmup THEN << 503, "Service temporarily unavailable" >>
    ELSE IF ~req.peerValid THEN << 403, "Access forbidden" >>
    ELSE IF req.method = "UNKNOWN" THEN << 405, "Invalid method" >>
    ELSE IF ~HasVersion(req.uri) THEN << 404, "Invalid api version. Use: <host>/v1/<endpoint>" >>
    ELSE << 404, "Endpoint missing. Use: <host>/v1/<endpoint>" >>

\* C9: a request failing an early check is answered by the earliest failing
\* one, in the order warm-up 503, address 403, method 405, version 404,
\* missing endpoint 404, and is neither matched nor enqueued.
C9_RejectionPrecedence ==
    (cur.id # 0 /\ ~PassedEarlyChecks(cur.req)) =>
        /\ ~crashed
        /\ NothingEnqueued(cur.id)
        /\ Len(replies[cur.id]) = 1
        /\ replies[cur.id][1].status = FirstFailure(cur.req)[1]
        /\ replies[cur.id][1].errors =
              << [code |-> "Undefined", message |-> FirstFailure(cur.req)[2]] >>

\* a request failing the address, method and version checks got the 403
C9_Witness ==
    /\ cur.id # 0
    /\ ~cur.req.warmup /\ ~cur.req.peerValid /\ cur.req.method = "UNKNOWN"
    /\ ~HasVersion(cur.req.uri)
    /\ Len(replies[cur.id]) = 1 /\ replies[cur.id][1].status = 403

----------------------------------------------------------------------------
(* Matcher harness: the path matcher applied to drawn templates and URIs *)

NoRes == [fMatch |-> FALSE, params |-> {}, done |-> FALSE, aborted |-> FALSE]

\* segments a template is built from: literals, placeholders, degenerate forms
TemplateSegs ==
    { << "x" >>, << "{", "p", "}" >>, << "{", "q", "}" >>, << "{", "}" >>,
      << "{" >>, EmptyStr }

\* segments a request URI is built from
UriSegs == { << "x" >>, << "y" >>, << "{", "p", "}" >>, EmptyStr }

SeqsUpTo(S, n) == UNION { [1..k -> S] : k \in 0..n }

MatchInit ==
    /\ mT \in SeqsUpTo(TemplateSegs, MaxSegs) \ { << >> }
    /\ mU \in SeqsUpTo(UriSegs, MaxSegs + 1)
    /\ mRes = NoRes
    /\ SysInit
    /\ ExecIdle

\* the dispatcher's match of one endpoint: the URI after the group prefix is
\* split (line 156, 161) and matched against the template string
MatchApply ==
    /\ ~mRes.done /\ ~mRes.aborted
    /\ LET r == EndpointMatch(mU, Join(mT)) IN
       mRes' = [fMatch |-> r.fMatch, params |-> r.params,
                done |-> TRUE, aborted |-> FALSE]
    /\ UNCHANGED << mT, mU, sysVars, execVars >>

\* front() on an empty segment is undefined: a build with library assertions
\* aborts there instead of reading the terminator
MatchAbort ==
    /\ ~mRes.done /\ ~mRes.aborted
    /\ EndpointMatch(mU, Join(mT)).ub
    /\ mRes' = [NoRes EXCEPT !.aborted = TRUE]
    /\ UNCHANGED << mT, mU, sysVars, execVars >>

MatchNext == MatchApply \/ MatchAbort


SpecMatch == MatchInit /\ [][MatchNext]_vars

----------------------------------------------------------------------------
(* C10: PathMatcher correctness *)

\* a template segment wrapped in braces
IsPlaceholderSeg(seg) == Len(seg) >= 2 /\ seg[1] = "{" /\ seg[Len(seg)] = "}"

PlaceholderPos(t) == { i \in 1..Len(t) : IsPlaceholderSeg(t[i]) }

PlaceholderName(seg) == SubSeq(seg, 2, Len(seg) - 1)

\* as many segments, or one more with the last empty, and equal literals
ShouldMatch(t, u) ==
    /\ \/ Len(u) = Len(t)
       \/ Len(u) = Len(t) + 1 /\ u[Len(u)] = EmptyStr
    /\ \A i \in 1..Len(t) : ~IsPlaceholderSeg(t[i]) => u[i] = t[i]

\* the matcher was applied to a non-empty template: it returned, or front()
\* on an empty path part ended the process and no match was reported
C10_Case == (mRes.done \/ mRes.aborted) /\ Join(mT) # EmptyStr

C10_Returned == mRes.done /\ Join(mT) # EmptyStr

\* C10: a non-empty template matches exactly when the segment counts agree
\* (one trailing empty segment allowed) and the literals are equal, and then
\* the parameter map holds exactly one entry per placeholder position, keyed
\* by the name without braces, valued by the URI segment there.
C10_PathMatcher ==
    C10_Case =>
        /\ mRes.fMatch <=> ShouldMatch(mT, mU)
        /\ mRes.fMatch =>
              /\ mRes.params = { << PlaceholderName(mT[i]), mU[i] >> : i \in PlaceholderPos(mT) }
              /\ Cardinality(mRes.params) = Cardinality(PlaceholderPos(mT))

\* first position of template t whose placeholder has the given name
FirstPos(t, name) ==
    CHOOSE i \in PlaceholderPos(t) :
        /\ PlaceholderName(t[i]) = name
        /\ \A j \in PlaceholderPos(t) : PlaceholderName(t[j]) = name => i <= j

\* what holds of the matcher when it returns: it matches exactly when the
\* segment counts agree (one trailing empty segment allowed) and the literals
\* are equal, and then the parameter map holds one entry per distinct
\* placeholder name, valued by the URI segment at the first position bearing
\* that name (std::map::insert keeps the first).
C10_WhenMatcherReturns ==
    C10_Returned =>
        /\ mRes.fMatch <=> ShouldMatch(mT, mU)
        /\ mRes.fMatch =>
              /\ mRes.params =
                    { << PlaceholderName(mT[i]), mU[FirstPos(mT, PlaceholderName(mT[i]))] >> :
                        i \in PlaceholderPos(mT) }
              /\ Cardinality(mRes.params) =
                    Cardinality({ PlaceholderName(mT[i]) : i \in PlaceholderPos(mT) })

\* a URI with a trailing slash that should match a template without empty
\* segments and with distinct placeholder names: the matcher aborted
C10_Aborted ==
    /\ C10_Case /\ mRes.aborted
    /\ Len(mU) = Len(mT) + 1
    /\ ShouldMatch(mT, mU)
    /\ \A i \in 1..Len(mT) : mT[i] # EmptyStr
    /\ Cardinality({ PlaceholderName(mT[i]) : i \in PlaceholderPos(mT) })
          = Cardinality(PlaceholderPos(mT))
    /\ PlaceholderPos(mT) # {}

\* a match with a trailing slash that binds a placeholder
C10_Matched ==
    /\ C10_Returned /\ mRes.fMatch
    /\ Len(mU) = Len(mT) + 1
    /\ mRes.params # {}
    /\ \E i \in 1..Len(mT) : ~IsPlaceholderSeg(mT[i])

----------------------------------------------------------------------------
(* C11: root-endpoint rule, under SpecDispatch *)

\* the endpoints whose template is empty
RootEndpoints == { p \in EndpointPtrs : EndpointAt(p).path = EmptyStr }

\* /v1/<group> and /v1/<group>/ for the group of endpoint p
RootUris(p) ==
    LET base == versionSubPath \o << "/" >> \o endpointGroups[p[1]].prefix
    IN  { base, base \o << "/" >> }

MatchedPtrs(req) == { x.ptr : x \in MatchSet(req) }

\* C11: an endpoint with an empty template is in the match set of a request
\* exactly when the URI is /v1/<group> or /v1/<group>/ for its group.
C11_RootEndpointRule ==
    (Tracked /\ PassedEarlyChecks(cur.req)) =>
        \A p \in RootEndpoints :
            p \in MatchedPtrs(cur.req) <=> cur.req.uri \in RootUris(p)

\* GET /v1/<group> for a group with a root endpoint of method GET: the
\* callback returned, nothing matched, the reply is 404 and no work item exists
C11_RootMissed ==
    /\ CallbackReturned /\ cur.req.method = "GET"
    /\ \E p \in RootEndpoints :
          /\ EndpointAt(p).method = "GET"
          /\ cur.req.uri = versionSubPath \o << "/" >> \o endpointGroups[p[1]].prefix
    /\ MatchSet(cur.req) = {}
    /\ Len(replies[cur.id]) = 1 /\ replies[cur.id][1].status = 404
    /\ NothingEnqueued(cur.id)

\* GET /v1/<group>// reached the root endpoint: its work item was built
C11_RootOverMatched ==
    /\ CallbackReturned /\ cur.req.method = "GET"
    /\ cur.req.uri = Str(V1, << "/", "a", "/", "/" >>)
    /\ \E it \in ItemsOf(cur.id) : it.ptr \in RootEndpoints

\* what holds of the root endpoint when the callback returns: /v1/<group>
\* does not match it and /v1/<group>/ does
C11_RootMatchedWithSlash ==
    (CallbackReturned /\ PassedEarlyChecks(cur.req)) =>
        \A p \in RootEndpoints :
            /\ cur.req.uri = versionSubPath \o << "/" >> \o endpointGroups[p[1]].prefix
                  => p \notin MatchedPtrs(cur.req)
            /\ cur.req.uri = versionSubPath \o << "/" >> \o endpointGroups[p[1]].prefix
                                \o << "/" >>
                  => p \in MatchedPtrs(cur.req)

----------------------------------------------------------------------------
(* C12: default headers, under Spec *)

AllReplies == UNION { Range(replies[id]) : id \in ReqIds }

\* C12: every response written carries the headers User-Agent,
\* Client-Version, SAPI-Version and Access-Control-Allow-Origin.
C12_DefaultHeaders == \A r \in AllReplies : DefaultHeaders \subseteq r.headers

\* a request refused by the full, running queue got the 500 without any of
\* the default headers
C12_QueueFullBare ==
    \E id \in ReqIds :
        /\ enq[id] = "rejected" /\ workQueue = "live" /\ running
        /\ Len(replies[id]) = 1
        /\ replies[id][1].status = 500
        /\ replies[id][1].headers \cap DefaultHeaders = {}

\* a request delivered after the interrupt got the 503 of the reject
\* callback without the default headers
C12_RejectBare ==
    \E id \in ReqIds :
        /\ Len(replies[id]) = 1
        /\ replies[id][1] = RejectReply
        /\ ~(DefaultHeaders \subseteq replies[id][1].headers)

\* what holds: every response other than the queue-full 500 and the
\* shutdown 503 carries the default headers
C12_HeadersElsewhere ==
    \A r \in AllReplies :
        (r # QueueFullReply /\ r # RejectReply) => DefaultHeaders \subseteq r.headers

----------------------------------------------------------------------------
(* C13: interrupt stops admission, under Spec *)

\* the request was answered by sapi_reject_request_cb
Rejected503(id) == Len(replies[id]) >= 1 /\ replies[id][1] = RejectReply

\* C13: once InterruptSAPIServer has returned, every request the engine
\* delivers is answered 503 by the reject callback in the delivering step,
\* without reaching the matcher (no abort there), the queue or a worker; and a
\* request so answered has that one reply, no work item and no execution.
C13_InterruptStopsAdmission ==
    /\ [][ (Called("Interrupt") /\ nextId' # nextId)
             => /\ replies'[nextId] = << RejectReply >>
                /\ replies'[nextId][1].status = 503
                /\ cb' = cb /\ queue' = queue /\ enq' = enq
                /\ held' = held /\ execs' = execs
                /\ crashed' = crashed ]_vars
    /\ [](\A id \in ReqIds :
            Rejected503(id) =>
                /\ Len(replies[id]) = 1
                /\ enq[id] = "none" /\ execs[id] = 0
                /\ id \notin Range(Ids(queue)) /\ Len(held[id]) = 0
                /\ ~(cb.pc = "enqueue" /\ cb.item.req = id))

\* after the interrupt a request was answered 503 while a work item accepted
\* before the interrupt was still in a worker's hands
C13_Witness ==
    /\ Called("Interrupt") /\ boundSocketsSAPI # {}
    /\ \E id, j \in ReqIds :
          /\ Rejected503(id) /\ j < id
          /\ enq[j] = "accepted" /\ Len(held[j]) = 1

----------------------------------------------------------------------------
(* C14: stop ordering, under Spec *)

\* positions of StopSAPIServer after WaitExit, after the timed join, at the
\* release of the engine
AfterWaitExit == ctl.pc \in { "stop_delete", "stop_join", "stop_join2", "stop_free" }

----------------------------------------------------------------------------
(* C15: Stop is idempotent and safe without Start, under Spec *)

\* the step StopSAPIServer stands at can be taken: the call waits for nothing
StopNotBlocked ==
    /\ (ctl.pc = "idle" /\ ~Called("Stop")) => ENABLED StopSAPIServer_WaitExit
    /\ ctl.pc = "stop_delete" => ENABLED StopSAPIServer_Delete
    /\ ctl.pc = "stop_join" => ENABLED StopSAPIServer_TimedJoin
    /\ ctl.pc = "stop_join2" => ENABLED StopSAPIServer_Join
    /\ ctl.pc = "stop_free" => ENABLED StopSAPIServer_Free

\* a step of a StopSAPIServer call made after a completed Stop
SecondStopStep == Called("Stop") /\ ctl' # ctl

\* the step returned to the caller and left every global as it was
ReturnedUnchanged ==
    /\ ctl'.pc = "idle" /\ crashed' = crashed
    /\ UNCHANGED << workQueue, eventBaseSAPI, eventSAPI, boundSocketsSAPI, threadSAPI,
                    queue, running, maxDepth, gencb, listening, loopbreak >>

\* C15: a second StopSAPIServer after a completed Stop returns and leaves the
\* state unchanged (it does not abort or hang on a released resource); and
\* with Start never called, whether Init succeeded, failed or was never
\* called, no step of Stop waits: no thread exists to wait for.
C15_StopIdempotent ==
    /\ [][ SecondStopStep => ReturnedUnchanged ]_vars
    /\ []((~Called("Start") /\ ~crashed) => StopNotBlocked)
    /\ [](~Called("Start") => (threadSAPI = "none" /\ worker.waiting = 0))

\* the second Stop of a server that had a work queue brought the process down
C15_SecondStopAborted ==
    /\ Called("Stop") /\ Called("Init")
    /\ ctl.pc = "stop_again" /\ crashed
    /\ workQueue = "deleted"

\* what holds: Stop without Start never waits, and a second Stop of a server
\* that never had a work queue returns and changes nothing
C15_SafeWithoutQueue ==
    /\ [][ (SecondStopStep /\ workQueue = "null") => ReturnedUnchanged ]_vars
    /\ []((~Called("Start") /\ ~crashed) => StopNotBlocked)
    /\ [](~Called("Start") => (threadSAPI = "none" /\ worker.waiting = 0))

\* Stop completed after a successful Init with no Start
C15_StoppedWithoutStart ==
    /\ ctl.called = { "Init", "Stop" } /\ ctl.pc = "idle"
    /\ workQueue = "deleted" /\ threadSAPI = "none" /\ loopbreak

\* Stop completed, and was called again, with no Init at all
C15_StoppedWithoutInit ==
    /\ ctl.called = { "Stop", "StopAgain" } /\ ctl.pc = "idle"
    /\ workQueue = "null" /\ ~crashed

----------------------------------------------------------------------------
(* C16: bind failure, under Spec *)

\* the server is as before InitSAPIServer: no queue, no handle, no thread
CreatedState ==
    /\ workQueue = "null" /\ queue = << >> /\ ~running
    /\ ~eventSAPI /\ ~eventBaseSAPI
    /\ threadSAPI = "none" /\ worker.waiting = 0 /\ worker.exited = 0
    /\ ~listening /\ ~loopbreak /\ nextId = 1

sysVarsButCtl ==
    << workQueue, eventBaseSAPI, eventSAPI, boundSocketsSAPI, threadSAPI, heapOrder,
       queue, running, maxDepth, gencb, listening, loopbreak, cb, worker, held, crashed,
       nextId, cur, replies, enq, execs, enqOrder, takenOrder, queuedAtInterrupt,
       burst, burstOn >>

\* C16: InitSAPIServer succeeds only with an address bound; when it fails
\* (none bound) there is no work queue and no engine or event-base handle,
\* and every later step of Interrupt or Stop changes nothing but the
\* caller's position and neither waits nor aborts.
C16_BindFailure ==
    /\ [](Called("Init") => boundSocketsSAPI # {})
    /\ []((ctl.called # {} /\ boundSocketsSAPI = {} /\ ~Called("Init"))
            => (Called("InitFailed") \/ Called("Stop")))
    /\ [](Called("InitFailed") => (CreatedState /\ ~crashed /\ boundSocketsSAPI = {}))
    /\ [](Called("InitFailed") => StopNotBlocked)
    /\ [][ Called("InitFailed") => UNCHANGED sysVarsButCtl ]_vars

\* Init failed with no address bound, then Interrupt and Stop returned
C16_Witness ==
    /\ ctl.called = { "InitFailed", "Interrupt", "Stop" } /\ ctl.pc = "idle"
    /\ boundSocketsSAPI = {} /\ CreatedState


(***************************************************************************)
(* Executor harness: SAPIExecuteEndpoint applied to one work item           *)
(***************************************************************************)

MaxParams == 3

ParamKey(i) == << "k", ToString(i) >>

ParamTypes == { "VSTR", "VNUM" }

\* declared parameter lists: parameter i has key k<i>, either optionality
\* and either declared kind
ParamLists(n) ==
    UNION { [1..m -> BOOLEAN \X ParamTypes] : m \in 0..n }

ToParams(l) ==
    [i \in 1..Len(l) |-> BodyParameter(ParamKey(i), l[i][1], l[i][2])]

\* endpoints handed to the executor: object roots with every parameter
\* list, array roots and rootless endpoints with at most one parameter
ExecEndpoints ==
    { Endpoint(EmptyStr, "POST", "VOBJ", ToParams(l)) : l \in ParamLists(MaxParams) }
    \cup { Endpoint(EmptyStr, "POST", r, ToParams(l)) :
             r \in { "VARR", "VNULL" }, l \in ParamLists(1) }

\* what a key of an object body can hold: nothing, a string the semantic
\* check accepts or rejects, or a number it accepts
KeyOptions == { "absent", "str", "badstr", "num" }

ObjVals(f) ==
    { KeyVal(ParamKey(i),
             IF f[i] = "num" THEN "VNUM" ELSE "VSTR",
             f[i] # "badstr") : i \in { j \in DOMAIN f : f[j] # "absent" } }

ExecBodies ==
    { Body("json", "VOBJ", ObjVals(f)) : f \in [1..MaxParams -> KeyOptions] }
    \cup { Body("empty", "VNULL", {}), Body("malformed", "VNULL", {}),
           Body("json", "VARR", {}), Body("json", "VSTR", {}) }

ExecInit ==
    /\ vEndpoint \in ExecEndpoints
    /\ vBody \in ExecBodies
    /\ vRes = NoExec
    /\ SysInit
    /\ mT = << >> /\ mU = << >>
    /\ mRes = [fMatch |-> FALSE, params |-> {}, done |-> FALSE, aborted |-> FALSE]

\* a worker runs the item: SAPIExecuteEndpoint (lines 603-611)
ExecApply(handlerReply) ==
    /\ ~vRes.done
    /\ vRes' = [replies |-> SAPIExecuteEndpoint_Run(vEndpoint, vBody, handlerReply).replies,
                handlerCalls |-> SAPIExecuteEndpoint_Run(vEndpoint, vBody, handlerReply).handlerCalls,
                bodyRead |-> SAPIExecuteEndpoint_Run(vEndpoint, vBody, handlerReply).bodyRead,
                bodyParameter |-> SAPIExecuteEndpoint_Run(vEndpoint, vBody, handlerReply).bodyParameter,
                escaped |-> SAPIExecuteEndpoint_Run(vEndpoint, vBody, handlerReply).escaped,
                scan |-> SAPIValidateBody_Scan(vEndpoint, vBody),
                handlerReply |-> handlerReply,
                done |-> TRUE]
    /\ UNCHANGED << vEndpoint, vBody, sysVars, matchVars >>

ExecNext == \E handlerReply \in HandlerReplies : ExecApply(handlerReply)

SpecExec == ExecInit /\ [][ExecNext]_vars

(***************************************************************************)
(* Claims on the executor, under SpecExec                                   *)
(***************************************************************************)

Declared == vEndpoint.vecBodyParameter

Present(i) == \E v \in vBody.vals : v.key = Declared[i].key

ValueOf(i) == CHOOSE v \in vBody.vals : v.key = Declared[i].key

\* the body passes every check that precedes the schema: the endpoint
\* declares a root, the body is non-empty JSON and of that root kind
SchemaChecked ==
    /\ vEndpoint.bodyRoot \in { "VOBJ", "VARR" }
    /\ vBody.kind = "json"
    /\ vBody.root = vEndpoint.bodyRoot

Missing(i) == ~Present(i) /\ ~Declared[i].optional

WrongType(i) == Present(i) /\ ValueOf(i).type # Declared[i].type

Rejected(i) == Present(i) /\ ValueOf(i).type = Declared[i].type /\ ~ValueOf(i).valid

Violating(i) == Missing(i) \/ WrongType(i) \/ Rejected(i)

\* the declared positions that violate the schema, in declaration order
ViolatingPositions ==
    SelectSeq([i \in 1..Len(Declared) |-> i], LAMBDA i : Violating(i))

\* C17: validation completeness.  When the body reaches the schema and some
\* declared parameter violates it, the only reply is one 400 whose error
\* list has exactly one Result per violating parameter, in declaration
\* order; nothing is dropped after the first failure.
C17_ValidationCompleteness ==
    (vRes.done /\ SchemaChecked /\ ViolatingPositions # << >>) =>
        /\ Len(vRes.replies) = 1
        /\ vRes.replies[1].status = 400
        /\ Len(vRes.replies[1].errors) = Len(ViolatingPositions)
        /\ \A j \in 1..Len(ViolatingPositions) :
              vRes.replies[1].errors[j].message = Declared[ViolatingPositions[j]].key

\* a body missing two required keys and holding one wrong-typed key was
\* answered with exactly three Results
C17_Witness ==
    /\ vRes.done /\ SchemaChecked
    /\ Len(Declared) = 3
    /\ Cardinality({ i \in 1..3 : Missing(i) }) = 2
    /\ Cardinality({ i \in 1..3 : WrongType(i) }) = 1
    /\ Len(vRes.replies[1].errors) = 3

\* C19: per-parameter validation rule.  For each declared parameter the
\* loop reached: absent and required gives ParameterMissing; absent and
\* optional gives nothing; present with another kind gives InvalidType and
\* the semantic check is not called; present with the declared kind calls
\* the semantic check and gives its Result exactly when that is not Valid.
\* No parameter gives more than one Result.
C19_PerParameterRule ==
    (vRes.done /\ SchemaChecked) =>
        /\ Len(vRes.scan) = Len(Declared)
        /\ \A i \in 1..Len(Declared) :
              /\ Len(vRes.scan[i].results) <= 1
              /\ Missing(i) =>
                    /\ vRes.scan[i].results =
                          << [code |-> "ParameterMissing", message |-> Declared[i].key] >>
                    /\ ~vRes.scan[i].validated
              /\ (~Present(i) /\ Declared[i].optional) =>
                    /\ vRes.scan[i].results = << >>
                    /\ ~vRes.scan[i].validated
              /\ WrongType(i) =>
                    /\ vRes.scan[i].results =
                          << [code |-> "InvalidType", message |-> Declared[i].key] >>
                    /\ ~vRes.scan[i].validated
              /\ (Present(i) /\ ~WrongType(i)) =>
                    /\ vRes.scan[i].validated
                    /\ vRes.scan[i].results =
                          IF ValueOf(i).valid THEN << >>
                          ELSE << [code |-> "InvalidValue", message |-> Declared[i].key] >>

\* one run met an absent optional key, a wrong-typed key and a key the
\* semantic check rejected
C19_Witness ==
    /\ vRes.done /\ SchemaChecked
    /\ Len(Declared) = 3
    /\ \E i \in 1..3 : ~Present(i) /\ Declared[i].optional
    /\ \E i \in 1..3 : WrongType(i) /\ ~vRes.scan[i].validated
    /\ \E i \in 1..3 : Rejected(i) /\ vRes.scan[i].validated

\* validation succeeds: no root declared, or the body reaches the schema
\* and no declared parameter violates it
ValidationSucceeds ==
    \/ vEndpoint.bodyRoot \notin { "VOBJ", "VARR" }
    \/ SchemaChecked /\ ViolatingPositions = << >>

\* C20: handler gating.  The handler is invoked exactly when validation
\* succeeds, and then once; otherwise exactly one reply is written, a 400,
\* and the handler is not invoked; with no body root declared the body is
\* not read and the handler gets a null body value.
C20_HandlerGating ==
    vRes.done =>
        /\ (vRes.handlerCalls = 1) <=> ValidationSucceeds
        /\ vRes.handlerCalls \in { 0, 1 }
        /\ ValidationSucceeds =>
              vRes.replies = << vRes.handlerReply >>
        /\ ~ValidationSucceeds =>
              /\ Len(vRes.replies) = 1
              /\ vRes.replies[1].status = 400
              /\ vRes.handlerCalls = 0
        /\ vEndpoint.bodyRoot \notin { "VOBJ", "VARR" } =>
              /\ ~vRes.bodyRead
              /\ vRes.bodyParameter.root = "VNULL"
        /\ (SchemaChecked /\ ViolatingPositions = << >>) =>
              vRes.bodyParameter = [root |-> vBody.root, vals |-> vBody.vals]

\* a body with a schema violation was answered 400 without the handler
C20_Witness ==
    /\ vRes.done /\ SchemaChecked /\ ViolatingPositions # << >>
    /\ vRes.handlerCalls = 0
    /\ vRes.replies[1].status = 400

\* a rootless endpoint's handler ran on a body that was never read
C20_RootlessHandled ==
    /\ vRes.done
    /\ vEndpoint.bodyRoot = "VNULL"
    /\ vBody.kind = "malformed"
    /\ vRes.handlerCalls = 1
    /\ ~vRes.bodyRead


(***************************************************************************)
(* Claims on termination, under SpecLive                                    *)
(***************************************************************************)

\* the accept-loop thread went into Enqueue on the queue Stop had deleted
\* and did not come back: the process aborted there, or the call hangs
StuckInDeletedQueue ==
    /\ workQueue = "deleted"
    /\ cb.pc \in { "enqueue", "hung" }
    /\ crashed \/ cb.pc = "hung"

\* C18: shutdown terminates.  With fair scheduling and handlers that return,
\* once InterruptSAPIServer has returned, the StopSAPIServer that follows
\* eventually returns.
C18_ShutdownTerminates == Called("Interrupt") ~> Called("Stop")

\* StopSAPIServer waits in threadSAPI.join() for an accept-loop thread that
\* never comes back from Enqueue
C18_JoinNeverReturns ==
    /\ Called("Interrupt")
    /\ ctl.pc = "stop_join2"
    /\ cb.pc = "hung"

\* StopSAPIServer was cut short by the process aborting in Enqueue
C18_AbortedInStop ==
    /\ Called("Interrupt")
    /\ ctl.pc \in { "stop_join", "stop_join2", "stop_free" }
    /\ crashed /\ cb.pc = "enqueue"

\* shutdown terminates unless the accept-loop thread is lost in Enqueue on
\* the deleted queue: no wait on the worker pool is endless, and the wait on
\* the accept-loop thread ends whenever its callback returns
C18_TerminatesUnlessStuck ==
    Called("Interrupt") ~> (Called("Stop") \/ StuckInDeletedQueue)

\* StopSAPIServer returned after an InterruptSAPIServer that found requests
\* queued and a request in a worker's hands
C18_ReturnedAfterWork ==
    /\ Called("Interrupt") /\ Called("Stop")
    /\ queuedAtInterrupt # {}
    /\ \E id \in ReqIds : execs[id] > 0

(***************************************************************************)
(* Claims on the queue's lifetime, under Spec                               *)
(***************************************************************************)

\* the accept-loop thread makes the call of line 247 on the queue that
\* StopSAPIServer has deleted: the callback leaves its place before Enqueue,
\* or the process aborts there
EnqueueCallOnDeleted ==
    /\ workQueue = "deleted" /\ cb.pc = "enqueue" /\ ~crashed
    /\ cb' # cb \/ (crashed' /\ ctl' = ctl)

\* C25: no use of the work queue after Stop destroys it.  No step of the
\* accept-loop thread is a call of Enqueue on the deleted queue, whether the
\* callback was running when the queue was deleted or started afterwards.
C25_NoEnqueueAfterDelete == [][~EnqueueCallOnDeleted]_vars

\* Enqueue was called on the deleted queue and returned true while
\* StopSAPIServer had not yet joined the accept-loop thread
C25_EnqueuedOnDeleted ==
    /\ workQueue = "deleted" /\ threadSAPI = "running"
    /\ ctl.pc \in { "stop_join", "stop_join2" }
    /\ \E id \in ReqIds : enq[id] = "lost"

\* a callback that starts after the deletion is never sapi_request_cb:
\* WaitExit returns only once the workers left, which they do only after
\* Interrupt, and Interrupt installed sapi_reject_request_cb before; so the
\* calls on the deleted queue come from callbacks already running
C25_StartedAfterDeleteRejects ==
    (workQueue = "deleted" /\ threadSAPI = "running") => gencb = "reject"

(***************************************************************************)
(* Claims on the outcome of a request, under Spec                           *)
(***************************************************************************)

\* the work items of request id that are in the queue
QueuedFor(id) == { k \in 1..Len(queue) : queue[k].req = id }

\* the two outcomes C24 allows: one reply and no work item, or one work
\* item in the queue and no reply
ReplyOnly(id) == Len(replies[id]) = 1 /\ ItemsOf(id) = {}

QueuedOnly(id) ==
    /\ replies[id] = << >>
    /\ Cardinality(QueuedFor(id)) = 1
    /\ held[id] = << >>

\* this step is the return of sapi_request_cb for request id: at one of the
\* returns before line 243, or after Enqueue came back
CallbackEndsFor(id) ==
    \/ /\ gencb = "request" /\ nextId = id /\ nextId' = id + 1
       /\ cb'.pc = "idle" /\ ~crashed'
    \/ cb.pc = "enqueue" /\ cb.item.req = id /\ cb'.pc = "idle"

\* this step ends sapi_request_cb for request id without a return: the
\* process aborts in it, or the call of Enqueue never comes back
CallbackLostFor(id) ==
    \/ /\ gencb = "request" /\ nextId = id /\ nextId' = id + 1 /\ crashed'
    \/ /\ cb.pc = "enqueue" /\ cb.item.req = id /\ ~crashed
       /\ cb'.pc = "hung" \/ (crashed' /\ ctl' = ctl)

\* C24: one outcome per request.  Every request delivered to
\* sapi_request_cb ends the callback, and at its end either exactly one
\* reply is written and no work item exists for it, or exactly one work item
\* for it is in the queue and no reply is written; never both, never neither.
C24_OneOutcome ==
    [][ \A id \in ReqIds :
           /\ CallbackEndsFor(id) => (ReplyOnly(id)' \/ QueuedOnly(id)')
           /\ CallbackEndsFor(id) => ~(ReplyOnly(id)' /\ QueuedOnly(id)')
           /\ ~CallbackLostFor(id) ]_vars

\* the callback returned with neither outcome: Enqueue on the deleted queue
\* returned true, so no reply is written and no work item exists
C24_NeitherOutcome ==
    \E id \in ReqIds :
        /\ cb.pc = "idle" /\ ~crashed
        /\ enq[id] = "lost"
        /\ ~ReplyOnly(id) /\ ~QueuedOnly(id)

\* the process aborted inside the callback at line 197
C24_AbortedInMatch ==
    /\ crashed /\ cb.pc = "idle" /\ workQueue = "live"
    /\ replies[nextId - 1] = << >> /\ enq[nextId - 1] = "none"

\* the same of the callbacks that return while the queue is not deleted:
\* each ends with exactly one of the two outcomes
C24_WhenQueueAliveAndCallbackReturns ==
    [][ \A id \in ReqIds :
           (CallbackEndsFor(id) /\ workQueue # "deleted") =>
               /\ ReplyOnly(id)' \/ QueuedOnly(id)'
               /\ ~(ReplyOnly(id)' /\ QueuedOnly(id)') ]_vars

\* both outcomes were seen: a request answered in the callback and a
\* request handed to the queue
C24_BothOutcomesSeen ==
    \E i, j \in ReqIds :
        /\ ReplyOnly(i) /\ enq[i] = "none"
        /\ QueuedOnly(j) /\ enq[j] = "accepted"

(***************************************************************************)
(* Claims on the choice of the endpoint, under SpecDispatch                 *)
(***************************************************************************)

\* registration order: the order of the groups in endpointGroups, then of
\* the endpoints in a group's vector
RegisteredBefore(p, q) ==
    \/ p[1] < q[1]
    \/ p[1] = q[1] /\ p[2] < q[2]

\* the endpoints of the match set that have the request's method
MethodPtrs(req) == { p \in MatchedPtrs(req) : EndpointAt(p).method = req.method }

\* the endpoint the work item of the tracked request was built for
DispatchedPtrs == { it.ptr : it \in ItemsOf(cur.id) }

\* C22: registration-order tie-break.  The endpoint a request is dispatched
\* to is, among the endpoints of its match set with its method, the one
\* registered first, in order of groups and of endpoints within a group.
C22_RegistrationOrder ==
    Tracked =>
        \A p \in DispatchedPtrs :
            /\ p \in MethodPtrs(cur.req)
            /\ \A q \in MethodPtrs(cur.req) : q = p \/ RegisteredBefore(p, q)

\* a request was dispatched to the endpoint of the second group although
\* an endpoint of the first group matched it with the same method
C22_LaterGroupChosen ==
    /\ Tracked
    /\ \E p \in DispatchedPtrs, q \in MethodPtrs(cur.req) :
          p[1] = 2 /\ q[1] = 1

\* what the code does: the endpoint chosen is the one lowest in memory
\* among those with the method, which within one group is the one
\* registered first
C22_AddressOrder ==
    Tracked =>
        \A p \in DispatchedPtrs :
            /\ p \in MethodPtrs(cur.req)
            /\ \A q \in MethodPtrs(cur.req) : q = p \/ PtrLess(heapOrder, p, q)
            /\ \A q \in MethodPtrs(cur.req) : q[1] = p[1] => (q = p \/ p[2] < q[2])

\* the tie was between endpoints of two groups and the first registered
\* was chosen: the second group's vector lies higher in memory
C22_FirstGroupChosen ==
    /\ Tracked
    /\ \E p \in DispatchedPtrs, q \in MethodPtrs(cur.req) :
          p[1] = 1 /\ q[1] = 2

(***************************************************************************)
(* Claims on the trailing slash, under SpecMatch                            *)
(***************************************************************************)

\* the URI parts without the empty part a trailing slash adds
Bare == SubSeq(mU, 1, Len(mU) - 1)

\* the matcher returned on a URI that is some URI of at least one part, not
\* itself ending in a slash, with one slash appended; the template is not
\* empty
C23_Case ==
    /\ mRes.done /\ Join(mT) # EmptyStr
    /\ Len(mU) >= 2
    /\ mU[Len(mU)] = EmptyStr
    /\ mU[Len(mU) - 1] # EmptyStr

\* C23: trailing-slash invariance.  A template matches the URI with the
\* slash appended exactly when it matches the URI without it, and with the
\* same path parameters.
C23_TrailingSlashInvariance ==
    C23_Case =>
        /\ mRes.fMatch = EndpointMatch(Bare, Join(mT)).fMatch
        /\ mRes.fMatch => mRes.params = EndpointMatch(Bare, Join(mT)).params

\* /x/ matched the template x/{p}, which /x does not match, and bound the
\* placeholder p to the empty part
C23_SlashBindsPlaceholder ==
    /\ C23_Case
    /\ mT = << << "x" >>, << "{", "p", "}" >> >>
    /\ mU = << << "x" >>, EmptyStr >>
    /\ mRes.fMatch
    /\ << << "p" >>, EmptyStr >> \in mRes.params
    /\ ~EndpointMatch(Bare, Join(mT)).fMatch

\* the invariance holds for every template that is not one part longer
\* than the URI: the slash changes the outcome only by letting the empty
\* part stand for the last part of a longer template
C23_ExceptLongerTemplates ==
    (C23_Case /\ Len(SplitPath(Join(mT))) # Len(Bare) + 1) =>
        /\ mRes.fMatch = EndpointMatch(Bare, Join(mT)).fMatch
        /\ mRes.fMatch => mRes.params = EndpointMatch(Bare, Join(mT)).params

\* a URI and the same URI with a slash both matched a template of the
\* URI's length, with the same parameter
C23_SlashTolerated ==
    /\ C23_Case
    /\ Len(SplitPath(Join(mT))) = Len(Bare)
    /\ mRes.fMatch /\ mRes.params # {}
    /\ mRes.params = EndpointMatch(Bare, Join(mT)).params

(***************************************************************************)
(* Executor harness with parameter checks that may raise an exception       *)
(***************************************************************************)

\* as KeyOptions, and a string on which the validator's check throws
ThrowKeyOptions == KeyOptions \cup { "throwstr" }

ObjValsThrowing(f) ==
    { IF f[i] = "throwstr"
      THEN KeyValThrowing(ParamKey(i), "VSTR")
      ELSE KeyVal(ParamKey(i),
                  IF f[i] = "num" THEN "VNUM" ELSE "VSTR",
                  f[i] # "badstr") : i \in { j \in DOMAIN f : f[j] # "absent" } }

ExecThrowBodies ==
    { Body("json", "VOBJ", ObjValsThrowing(f)) : f \in [1..MaxParams -> ThrowKeyOptions] }
    \cup { Body("empty", "VNULL", {}), Body("malformed", "VNULL", {}),
           Body("json", "VARR", {}), Body("json", "VSTR", {}) }

ExecThrowInit ==
    /\ vEndpoint \in ExecEndpoints
    /\ vBody \in ExecThrowBodies
    /\ vRes = NoExec
    /\ SysInit
    /\ mT = << >> /\ mU = << >>
    /\ mRes = [fMatch |-> FALSE, params |-> {}, done |-> FALSE, aborted |-> FALSE]

SpecExecThrow == ExecThrowInit /\ [][ExecNext]_vars

(***************************************************************************)
(* Claims on error containment, under SpecExecThrow                         *)
(***************************************************************************)

\* the body is read and does not parse
ParseFails ==
    /\ vEndpoint.bodyRoot \in { "VOBJ", "VARR" }
    /\ vBody.kind = "malformed"

\* the check of some declared parameter, present with the declared kind,
\* raises an exception
CheckRaises ==
    /\ SchemaChecked
    /\ \E i \in 1..Len(Declared) :
          Present(i) /\ ~WrongType(i) /\ ValueOf(i).throws

\* C21: error containment in the executor.  An exception raised while
\* parsing the body or while running a parameter validator's check does
\* not leave SAPIExecuteEndpoint and is answered with one 400 reply.
C21_ErrorContainment ==
    vRes.done =>
        /\ ~vRes.escaped
        /\ (ParseFails \/ CheckRaises) =>
              /\ Len(vRes.replies) = 1
              /\ vRes.replies[1].status = 400

\* a validator's check threw: the exception left SAPIExecuteEndpoint, no
\* reply was written and the handler was not called, although an earlier
\* parameter had already failed
C21_Escaped ==
    /\ vRes.done /\ CheckRaises
    /\ vRes.escaped
    /\ vRes.replies = << >> /\ vRes.handlerCalls = 0
    /\ \E i \in 1..Len(vRes.scan) : vRes.scan[i].results # << >>

\* the errors of parsing are contained: a body that does not parse is
\* answered with one 400 and nothing leaves SAPIExecuteEndpoint; so is
\* every run in which no check throws
C21_ContainedUnlessCheckThrows ==
    (vRes.done /\ ~CheckRaises) =>
        /\ ~vRes.escaped
        /\ Len(vRes.replies) = 1
        /\ ParseFails => vRes.replies[1].status = 400

\* a body that does not parse was answered 400
C21_ParseErrorAnswered ==
    /\ vRes.done /\ ParseFails
    /\ ~vRes.escaped
    /\ vRes.replies[1].status = 400

\* after an item's outcome the worker that ran it is back at Dequeue and
\* the queue is as the item's execution found it (checked under Spec)
C21_WorkerGoesOn ==
    [][ (\E id \in ReqIds : execs'[id] = execs[id] + 1) =>
            /\ worker'.waiting = worker.waiting + 1
            /\ worker'.exited = worker.exited
            /\ queue' = queue
            /\ ~crashed' ]_vars

\* one worker executed an item and then a later one
C21_WorkerServedTwo ==
    /\ worker.waiting + worker.exited = 1
    /\ \E i, j \in ReqIds : i < j /\ execs[i] = 1 /\ execs[j] = 1
====
